---- MODULE Spec2Model ----
(***************************************************************************)
(* Bed-booking ledger of the maitreffen server (src/server.js).           *)
(*                                                                         *)
(* The ledger is the PostgreSQL table `bookings`; it is modelled as a bag  *)
(* of rows (the SERIAL id is what makes two equal rows two rows).  Every   *)
(* handler is translated statement by statement: one step per awaited      *)
(* storage call.  A transaction keeps its uncommitted writes in tx[p]      *)
(* (rows it created, committed rows it deleted or replaced) and the other  *)
(* callers see them only after COMMIT (READ COMMITTED).                    *)
(*                                                                         *)
(* Of the fifteen logistics columns three are kept, one per SQL type and   *)
(* default: transport (text, NULL), needs_pickup (boolean, FALSE) and      *)
(* seats_available (integer, 0).  booked_at is left out.                   *)
(* Strings that the code trims are sequences of tokens, " " being the      *)
(* whitespace token.  An optional JSON field is the empty set (absent) or  *)
(* a singleton.                                                            *)
(***************************************************************************)
EXTENDS Bags, FiniteSets, Integers, Sequences, TLC

\* ------------------------------------------------------------------ bounds
MaxOps == 3
NumClients == 2
MaxEntries == 2

\* ------------------------------------------------------------------ values
Null == "NULL"
Events == {1, 2}
Beds == {"B1", "B2", "B3"}
Clients == 1..NumClients

Restricted == {"blocked", "women_only", "men_only"}
Claimable == {"women_only", "men_only"}

Alice == <<" ", "Alice", " ">>
Dana == <<"Dana">>

\* Request bodies of Reserve and Claim: name and logistics fields.
Bodies ==
  { [name |-> {Alice},   transport |-> {"train"}, needsPickup |-> {TRUE},  seatsAvailable |-> {}],
    [name |-> {Dana},    transport |-> {},        needsPickup |-> {},      seatsAvailable |-> {2}],
    [name |-> {<<" ">>}, transport |-> {"car"},   needsPickup |-> {FALSE}, seatsAvailable |-> {0}],
    [name |-> {},        transport |-> {""},      needsPickup |-> {},      seatsAvailable |-> {}] }

ValidBodies == {body \in Bodies : body.name \in {{Alice}, {Dana}}}

\* roomBeds: absent ({}), a JSON value that is no array, or an array of bed ids.
NotAnArray == {[isArray |-> FALSE, items |-> <<>>]}
Room == {[isArray |-> TRUE, items |-> <<"B1", "B2", "B3">>]}
Twice == {[isArray |-> TRUE, items |-> <<"B2", "B2">>]}
Pair == {[isArray |-> TRUE, items |-> <<"B1", "B2">>]}

\* roomRestriction and roomBeds of a Reserve request.
RoomArgs ==
  { [roomRestriction |-> {},          roomBeds |-> {}],
    [roomRestriction |-> {"none"},    roomBeds |-> Room],
    [roomRestriction |-> {"vip"},     roomBeds |-> Room],
    [roomRestriction |-> {"blocked"}, roomBeds |-> NotAnArray],
    [roomRestriction |-> {"women"},   roomBeds |-> {}],
    [roomRestriction |-> {"blocked"}, roomBeds |-> Room],
    [roomRestriction |-> {"women"},   roomBeds |-> Room],
    [roomRestriction |-> {"men"},     roomBeds |-> Room],
    [roomRestriction |-> {"men"},     roomBeds |-> Twice] }

\* The requests of the concurrent callers.
PairBeds == {"B1", "B2"}
PairArgs ==
  { [roomRestriction |-> {},        roomBeds |-> {}],
    [roomRestriction |-> {"women"}, roomBeds |-> Pair] }
ClaimBodies == {body \in Bodies : body.name = {Dana}}

NoReq == [op |-> "none"]
NoTx == [ins |-> EmptyBag, del |-> EmptyBag]
\* No connection taken: held, the number of client.release() calls, and the
\* COMMIT and ROLLBACK statements that succeeded on it.
NoClient == [held |-> FALSE, released |-> 0, ended |-> <<>>]
\* The connection after a transaction ended by how and finally: client.release()
Closed(how) == [held |-> FALSE, released |-> 1, ended |-> <<how>>]

\* An id that no row of table events carries.
NoSuchEvent == 3

\* The events table after startup: the seeded event is the active one, every
\* event created since is inactive (is_active BOOLEAN DEFAULT FALSE).
Seeded == [e \in Events |-> e = 1]

\* The orders in which an UPDATE without WHERE may come to the rows.
Scans == {s \in [1..Cardinality(Events) -> Events] : \A e \in Events : \E i \in DOMAIN s : s[i] = e}

\* No activation is running at a caller.
NoActivation ==
  [pc |-> "idle", id |-> 0, scan |-> <<>>, locked |-> {}, on |-> {}, res |-> 0,
   alone |-> TRUE]

\* EVENT.slug
Slug == "maitreffen"

\* event_id IS NULL in a row of bookings, games or waitlist.
Unlinked == 0

\* ROOMS, shortened to its first entries.
NumRooms == 2
\* The rows a table to be linked holds, and the runs of the script.
LinkRows == 1..2
MaxRuns == 2

\* The tables of a database without its sequences.
Tables(d) ==
  [events |-> d.events, rooms |-> d.rooms, bookings |-> d.bookings, games |-> d.games,
   waitlist |-> d.waitlist]

EventRow(id, slug, active) == [id |-> id, slug |-> slug, is_active |-> active]

\* The databases the script may be started on: with or without the event, with
\* or without another event, with all or none of the event's rooms, and with
\* rows that carry no event or an existing one.
Databases ==
  LET eventSets ==
        {{}, {EventRow(1, "other", TRUE)}, {EventRow(1, Slug, TRUE)},
         {EventRow(1, "other", TRUE), EventRow(2, Slug, FALSE)}}
      of(ev) ==
        LET ids == {Unlinked} \cup {e.id : e \in ev}
        IN  {[events |-> ev, rooms |-> rooms, bookings |-> b, games |-> g, waitlist |-> w,
              seq |-> Cardinality(ev) + 1] :
               rooms \in {{}} \cup {{<<e.id, n>> : n \in 1..NumRooms} :
                                     e \in {x \in ev : x.slug = Slug}},
               b \in [LinkRows -> ids], g \in [{1} -> ids], w \in [{1} -> ids]}
  IN  UNION {of(ev) : ev \in eventSets}

\* The database the server's own startup leaves: the event, its rooms, every
\* row linked.
Migrated ==
  [events |-> {EventRow(1, Slug, TRUE)}, rooms |-> {<<1, n>> : n \in 1..NumRooms},
   bookings |-> [i \in LinkRows |-> 1], games |-> [i \in {1} |-> 1],
   waitlist |-> [i \in {1} |-> 1], seq |-> 2]

\* The script is not running. tx: the tables as the open transaction sees
\* them; before: the tables when the run began; migrated: a run has committed.
NoRun ==
  [pc |-> "idle", eventId |-> 0, idx |-> 0, tx |-> Tables(Migrated),
   before |-> Tables(Migrated), runs |-> 0, migrated |-> FALSE]

\* getCachedOrFetch is not running at a caller.
NoFetch == [pc |-> "idle", url |-> "none", data |-> "none"]

\* The urls asked for and the text the catalog answers with.
Urls == {"u1", "u2", "u3"}
Texts == {"x1"}

\* The 500 of bggCache.size > 500 and BGG_CACHE_TTL, scaled down, and the last
\* value of the clock.
CacheLimit == 2
BGG_CACHE_TTL == 2
MaxTime == 3

VARIABLES
  bookings,   \* the committed rows of table bookings
  pc,         \* pc[p]: where caller p's handler is suspended
  req,        \* req[p]: the request caller p's handler is serving
  idx,        \* idx[p]: position of the cascade loop in roomBeds
  tx,         \* tx[p]: uncommitted writes of p's transaction
  err,        \* err[p]: what the handler's catch block caught
  res,        \* res[p]: HTTP status of the response sent, 0 if none yet
  pre,        \* pre[p]: the committed rows when p's request arrived
  met,        \* met[p]: the callers whose requests ran while p's was running
  ops,        \* number of requests received so far
  waitlist,   \* the rows of table waitlist, in the order of their creation
  nextId,     \* the next value of the waitlist id sequence
  out,        \* per caller: the JSON body of a list or waitlist answer, {} otherwise
  client,     \* client[p]: the connection p's handler took from the pool
  sent,       \* sent[p]: the number of responses p's handler has sent
  events,     \* events[e]: column is_active of the row of table events with id e
  act,        \* act[p]: caller p's handler of an event activation
  db,         \* the tables the migration script reads and writes, and the events id sequence
  mig,        \* the run of the migration script
  bggCache,   \* the entries of the Map bggCache, in the order of their insertion
  now,        \* Date.now()
  fetching    \* fetching[p]: caller p's call of getCachedOrFetch

\* The variables of the booking and waitlist handlers.
booking == <<bookings, pc, req, idx, tx, err, res, pre, met, ops, waitlist, nextId, out,
             client, sent>>

\* The variables of the event administration, of the migration script and of
\* the catalog cache.
admin == <<events, act>>
migration == <<db, mig>>
catalog == <<bggCache, now, fetching>>
others == <<admin, migration, catalog>>

vars == <<booking, others>>

\* ------------------------------------------------------------------ JavaScript values
IsWhitespace(c) == c = " "

RECURSIVE TrimStart(_)
TrimStart(s) ==
  IF s # <<>> /\ IsWhitespace(Head(s)) THEN TrimStart(Tail(s)) ELSE s

RECURSIVE TrimEnd(_)
TrimEnd(s) ==
  IF s # <<>> /\ IsWhitespace(s[Len(s)]) THEN TrimEnd(SubSeq(s, 1, Len(s) - 1)) ELSE s

\* String.prototype.trim
Trim(s) == TrimEnd(TrimStart(s))

Val(opt) == CHOOSE v \in opt : TRUE

\* Faulty variant of NameMissing: a name of whitespace only is accepted.
NameMissing_AcceptsBlank(name) == name = {} \/ Val(name) = <<>>

\* !name || !name.trim()
NameMissing(name) == name = {} \/ Val(name) = <<>> \/ Trim(Val(name)) = <<>>

\* x || null for a text field, x || false, x || 0
TextOrNull(opt) == IF opt = {} \/ Val(opt) = "" THEN Null ELSE Val(opt)
BoolOrFalse(opt) == IF opt = {} THEN FALSE ELSE Val(opt)
IntOrZero(opt) == IF opt = {} THEN 0 ELSE Val(opt)

\* ------------------------------------------------------------------ rows and statements
\* A WHERE clause: event_id = e and, for each further column, the set of the
\* values it admits ({}: the clause does not name the column).
BedWhere(e, b) == [event_id |-> e, bed_id |-> {b}, blocked_by |-> {}, status |-> {}]

\* Faulty variant of Matches: the event_id condition is missing.
Matches_AnyEvent(r, w) ==
  /\ w.bed_id = {} \/ r.bed_id \in w.bed_id
  /\ w.blocked_by = {} \/ r.blocked_by \in w.blocked_by
  /\ w.status = {} \/ r.status \in w.status

Matches(r, w) ==
  /\ r.event_id = w.event_id
  /\ w.bed_id = {} \/ r.bed_id \in w.bed_id
  /\ w.blocked_by = {} \/ r.blocked_by \in w.blocked_by
  /\ w.status = {} \/ r.status \in w.status

Where(B, w) == [r \in {x \in BagToSet(B) : Matches(x, w)} |-> B[r]]

HasKey(r, e, b) == r.event_id = e /\ r.bed_id = b

\* What a transaction with writes t reads of the committed rows B: the rows it
\* has not deleted, and its own.
View(B, t) == (B (-) t.del) (+) t.ins

\* SELECT * FROM bookings WHERE event_id = $1 AND bed_id = $2
SelectBed(B, t, e, b) == Where(View(B, t), BedWhere(e, b))

TxInsert(t, row) == [t EXCEPT !.ins = @ (+) SetToBag({row})]

\* DELETE ... WHERE w: the transaction's own matching rows vanish, the
\* committed ones are marked deleted.
TxDelete(B, t, w) ==
  [ins |-> t.ins (-) Where(t.ins, w),
   del |-> t.del (+) Where(B (-) t.del, w)]

\* UPDATE ... WHERE w: the matching rows are replaced by their updated versions.
TxUpdate(B, t, w, updated) ==
  [ins |-> (t.ins (-) Where(t.ins, w)) (+) updated,
   del |-> t.del (+) Where(B (-) t.del, w)]

\* Faulty variant of BookedRow: the name is stored as sent, untrimmed.
BookedRow_Untrimmed(e, b, body) ==
  [event_id |-> e, bed_id |-> b, name |-> Val(body.name),
   status |-> "booked", blocked_by |-> Null,
   transport |-> TextOrNull(body.transport),
   needs_pickup |-> BoolOrFalse(body.needsPickup),
   seats_available |-> IntOrZero(body.seatsAvailable)]

\* The row the Reserve upsert writes (VALUES list).
BookedRow(e, b, body) ==
  [event_id |-> e, bed_id |-> b, name |-> Trim(Val(body.name)),
   status |-> "booked", blocked_by |-> Null,
   transport |-> TextOrNull(body.transport),
   needs_pickup |-> BoolOrFalse(body.needsPickup),
   seats_available |-> IntOrZero(body.seatsAvailable)]

\* Faulty variant of UpsertSet: a patch, a logistics column whose new value is
\* the default keeps its old value.
UpsertSet_Patch(old, new) ==
  [old EXCEPT !.name = new.name, !.status = "booked", !.blocked_by = Null,
              !.transport = IF new.transport = Null THEN old.transport ELSE new.transport,
              !.needs_pickup = new.needs_pickup \/ old.needs_pickup,
              !.seats_available = IF new.seats_available = 0 THEN old.seats_available
                                  ELSE new.seats_available]

\* Faulty variant of UpsertSet: the conflict branch leaves blocked_by as it was.
UpsertSet_KeepsAnchor(old, new) ==
  [old EXCEPT !.name = new.name, !.status = "booked",
              !.transport = new.transport, !.needs_pickup = new.needs_pickup,
              !.seats_available = new.seats_available]

\* Faulty variant of UpsertSet: the conflict branch leaves transport as it was.
UpsertSet_KeepsTransport(old, new) ==
  [old EXCEPT !.name = new.name, !.status = "booked", !.blocked_by = Null,
              !.needs_pickup = new.needs_pickup,
              !.seats_available = new.seats_available]

\* DO UPDATE SET name = $3, status = 'booked', blocked_by = NULL, <logistics>
UpsertSet(old, new) ==
  [old EXCEPT !.name = new.name, !.status = "booked", !.blocked_by = Null,
              !.transport = new.transport, !.needs_pickup = new.needs_pickup,
              !.seats_available = new.seats_available]

\* INSERT ... ON CONFLICT (event_id, bed_id) DO UPDATE
Upsert(B, t, row) ==
  IF SelectBed(B, t, row.event_id, row.bed_id) = EmptyBag
  THEN TxInsert(t, row)
  ELSE TxUpdate(B, t, BedWhere(row.event_id, row.bed_id),
                BagOfAll(LAMBDA r : UpsertSet(r, row),
                         SelectBed(B, t, row.event_id, row.bed_id)))

\* Faulty variant of UniqueViolation: a table without the unique constraint.
UniqueViolation_Unconstrained(B, t, row) == FALSE

\* A plain INSERT violates UNIQUE (event_id, bed_id) when the key is present.
UniqueViolation(B, t, row) == SelectBed(B, t, row.event_id, row.bed_id) # EmptyBag

\* Faulty variant of CascadeRow: blocked_by is left at its default.
CascadeRow_NoAnchor(e, b, displayName, status, anchor) ==
  [event_id |-> e, bed_id |-> b, name |-> displayName,
   status |-> status, blocked_by |-> Null,
   transport |-> Null, needs_pickup |-> FALSE, seats_available |-> 0]

\* Faulty variant of CascadeRow: blocked_by names the bed of the row itself.
CascadeRow_SelfAnchor(e, b, displayName, status, anchor) ==
  [event_id |-> e, bed_id |-> b, name |-> displayName,
   status |-> status, blocked_by |-> b,
   transport |-> Null, needs_pickup |-> FALSE, seats_available |-> 0]

\* The row a cascade INSERT writes; unnamed columns take the table defaults.
CascadeRow(e, b, displayName, status, anchor) ==
  [event_id |-> e, bed_id |-> b, name |-> displayName,
   status |-> status, blocked_by |-> anchor,
   transport |-> Null, needs_pickup |-> FALSE, seats_available |-> 0]

\* Faulty variant of CascadeStatus: the women and men branches are swapped.
CascadeStatus_Swapped(restriction, name) ==
  IF restriction = "blocked"
  THEN {[status |-> "blocked", displayName |-> <<"LOCK", " ">> \o Trim(name)]}
  ELSE IF restriction = "women"
  THEN {[status |-> "men_only", displayName |-> <<"MAENNERZIMMER">>]}
  ELSE IF restriction = "men"
  THEN {[status |-> "women_only", displayName |-> <<"FRAUENZIMMER">>]}
  ELSE {}

\* Faulty variant of CascadeStatus: an unknown restriction blocks.
CascadeStatus_DefaultBlocked(restriction, name) ==
  IF restriction = "women"
  THEN {[status |-> "women_only", displayName |-> <<"FRAUENZIMMER">>]}
  ELSE IF restriction = "men"
  THEN {[status |-> "men_only", displayName |-> <<"MAENNERZIMMER">>]}
  ELSE {[status |-> "blocked", displayName |-> <<"LOCK", " ">> \o Trim(name)]}

\* Faulty variant of CascadeStatus: an unknown restriction is stored as it came.
CascadeStatus_Verbatim(restriction, name) ==
  IF restriction = "blocked"
  THEN {[status |-> "blocked", displayName |-> <<"LOCK", " ">> \o Trim(name)]}
  ELSE IF restriction = "women"
  THEN {[status |-> "women_only", displayName |-> <<"FRAUENZIMMER">>]}
  ELSE IF restriction = "men"
  THEN {[status |-> "men_only", displayName |-> <<"MAENNERZIMMER">>]}
  ELSE {[status |-> restriction, displayName |-> Trim(name)]}

\* status and displayName chosen by the cascade; {} when status stays undefined.
CascadeStatus(restriction, name) ==
  IF restriction = "blocked"
  THEN {[status |-> "blocked", displayName |-> <<"LOCK", " ">> \o Trim(name)]}
  ELSE IF restriction = "women"
  THEN {[status |-> "women_only", displayName |-> <<"FRAUENZIMMER">>]}
  ELSE IF restriction = "men"
  THEN {[status |-> "men_only", displayName |-> <<"MAENNERZIMMER">>]}
  ELSE {}

\* roomRestriction && roomRestriction !== 'none' && roomBeds && Array.isArray(roomBeds)
CascadeGuard(r) ==
  /\ r.roomRestriction # {} /\ Val(r.roomRestriction) # ""
  /\ Val(r.roomRestriction) # "none"
  /\ r.roomBeds # {}
  /\ Val(r.roomBeds).isArray

\* Faulty variant of Items: the cascade walks every bed of the house.
Items_EveryBed(r) == <<"B1", "B2", "B3">>

Items(r) == Val(r.roomBeds).items

\* First position from i on whose bed is not the anchor; Len + 1 when none.
RECURSIVE NextOther(_, _, _)
NextOther(items, bedId, i) ==
  IF i > Len(items) THEN i
  ELSE IF items[i] # bedId THEN i
  ELSE NextOther(items, bedId, i + 1)

\* Faulty variant of DependentWhere: only the restricted dependents are named.
DependentWhere_OnlyRestricted(e, b) ==
  [event_id |-> e, bed_id |-> {}, blocked_by |-> {b}, status |-> Restricted]

\* Faulty variant of DependentWhere: the blocked_by condition is missing.
DependentWhere_AnyAnchor(e, b) ==
  [event_id |-> e, bed_id |-> {}, blocked_by |-> {}, status |-> {}]

\* WHERE event_id = $1 AND blocked_by = $2 (Release)
DependentWhere(e, b) == [event_id |-> e, bed_id |-> {}, blocked_by |-> {b}, status |-> {}]

\* Faulty variant of UnblockWhere: the status filter is missing.
UnblockWhere_AnyStatus(e, b) == BedWhere(e, b)

\* WHERE event_id = $1 AND bed_id = $2 AND status IN ('blocked', 'women_only', 'men_only')
UnblockWhere(e, b) == [event_id |-> e, bed_id |-> {b}, blocked_by |-> {}, status |-> Restricted]

\* Faulty variant of ClaimWhere: a booked slot may be claimed again.
ClaimWhere_AlsoBooked(e, b) ==
  [event_id |-> e, bed_id |-> {b}, blocked_by |-> {}, status |-> Claimable \cup {"booked"}]

\* Faulty variant of ClaimWhere: blocked slots are admitted too.
ClaimWhere_AnyRestricted(e, b) ==
  [event_id |-> e, bed_id |-> {b}, blocked_by |-> {}, status |-> Restricted]

\* WHERE event_id = $14 AND bed_id = $15 AND status IN ('women_only', 'men_only')
ClaimWhere(e, b) == [event_id |-> e, bed_id |-> {b}, blocked_by |-> {}, status |-> Claimable]

\* Faulty variant of ClaimSet: the claim also clears blocked_by.
ClaimSet_ClearsAnchor(old, body) ==
  [old EXCEPT !.name = Trim(Val(body.name)), !.status = "booked", !.blocked_by = Null,
              !.transport = TextOrNull(body.transport),
              !.needs_pickup = BoolOrFalse(body.needsPickup),
              !.seats_available = IntOrZero(body.seatsAvailable)]

\* UPDATE bookings SET name = $1, status = 'booked', <logistics> (Claim)
ClaimSet(old, body) ==
  [old EXCEPT !.name = Trim(Val(body.name)), !.status = "booked",
              !.transport = TextOrNull(body.transport),
              !.needs_pickup = BoolOrFalse(body.needsPickup),
              !.seats_available = IntOrZero(body.seatsAvailable)]

\* ------------------------------------------------------------------ handler steps
\* The part of a handler between two awaited storage calls, as a function of
\* the committed rows B, the request r and the handler's state
\* h = [pc, idx, tx, err].

\* The cascade loop from position i up to its next storage call.
LoopFrom(r, h, i) ==
  LET j == NextOther(Items(r), r.bedId, i)
  IN  [h EXCEPT !.idx = j, !.pc = IF j > Len(Items(r)) THEN "commit" ELSE "select"]

\* client.query('BEGIN')
BeginStep(r, h) == [h EXCEPT !.pc = IF r.op = "Reserve" THEN "upsert" ELSE "delDeps"]

\* Faulty variant of UpsertStep: a Reserve of an anchor first removes the
\* slots the anchor restricted, so that the cascade lays them out anew.
UpsertStep_RenewsCascade(B, r, h) ==
  LET h0 == [h EXCEPT !.tx = TxDelete(B, h.tx, DependentWhere(Val(r.eventId), r.bedId))]
      h1 == [h0 EXCEPT !.tx = Upsert(B, h0.tx, BookedRow(Val(r.eventId), r.bedId, r.body))]
  IN  IF CascadeGuard(r) THEN LoopFrom(r, h1, 1) ELSE [h1 EXCEPT !.pc = "commit"]

\* The primary upsert, then the cascade guard.
UpsertStep(B, r, h) ==
  LET h1 == [h EXCEPT !.tx = Upsert(B, h.tx, BookedRow(Val(r.eventId), r.bedId, r.body))]
  IN  IF CascadeGuard(r) THEN LoopFrom(r, h1, 1) ELSE [h1 EXCEPT !.pc = "commit"]

\* Faulty variant of SelectStep: the existence check reads the committed rows
\* only, as it would on a connection outside the transaction.
SelectStep_OutsideTx(B, r, h) ==
  LET existing == SelectBed(B, NoTx, Val(r.eventId), Items(r)[h.idx])
      chosen == CascadeStatus(Val(r.roomRestriction), Val(r.body.name))
  IN  IF existing = EmptyBag /\ chosen # {}
      THEN [h EXCEPT !.pc = "insert"]
      ELSE LoopFrom(r, h, h.idx + 1)

\* The existence check of one sibling; an INSERT follows when it finds no row
\* and the restriction names a status.
SelectStep(B, r, h) ==
  LET existing == SelectBed(B, h.tx, Val(r.eventId), Items(r)[h.idx])
      chosen == CascadeStatus(Val(r.roomRestriction), Val(r.body.name))
  IN  IF existing = EmptyBag /\ chosen # {}
      THEN [h EXCEPT !.pc = "insert"]
      ELSE LoopFrom(r, h, h.idx + 1)

\* The sibling INSERT; a unique violation throws into the catch block.
InsertStep(B, r, h) ==
  LET chosen == Val(CascadeStatus(Val(r.roomRestriction), Val(r.body.name)))
      row == CascadeRow(Val(r.eventId), Items(r)[h.idx], chosen.displayName,
                        chosen.status, r.bedId)
  IN  IF UniqueViolation(B, h.tx, row)
      THEN [h EXCEPT !.pc = "rollback", !.err = "unique_violation"]
      ELSE LoopFrom(r, [h EXCEPT !.tx = TxInsert(h.tx, row)], h.idx + 1)

\* Faulty variant of DeleteDependentsStep: the dependents are not deleted.
DeleteDependentsStep_Skipped(B, r, h) == [h EXCEPT !.pc = "delBed"]

\* DELETE FROM bookings WHERE event_id = $1 AND blocked_by = $2
DeleteDependentsStep(B, r, h) ==
  [h EXCEPT !.tx = TxDelete(B, h.tx, DependentWhere(Val(r.eventId), r.bedId)),
            !.pc = "delBed"]

\* DELETE FROM bookings WHERE event_id = $1 AND bed_id = $2
DeleteBedStep(B, r, h) ==
  [h EXCEPT !.tx = TxDelete(B, h.tx, BedWhere(Val(r.eventId), r.bedId)),
            !.pc = "commit"]

\* The storage call at h.pc and the code up to the next one.
Step(B, r, h) ==
  CASE h.pc = "begin" -> BeginStep(r, h)
    [] h.pc = "upsert" -> UpsertStep(B, r, h)
    [] h.pc = "select" -> SelectStep(B, r, h)
    [] h.pc = "insert" -> InsertStep(B, r, h)
    [] h.pc = "delDeps" -> DeleteDependentsStep(B, r, h)
    [] h.pc = "delBed" -> DeleteBedStep(B, r, h)

\* The handler run without interruption up to COMMIT or ROLLBACK.
RECURSIVE Run(_, _, _)
Run(B, r, h) ==
  IF h.pc \in {"commit", "rollback"} THEN h ELSE Run(B, r, Step(B, r, h))

Started == [pc |-> "begin", idx |-> 0, tx |-> NoTx, err |-> "none"]

\* COMMIT makes the transaction's writes the committed rows.
Committed(B, t) == View(B, t)

\* Faulty variant of UnblockQuery: the slots blocked by the bed go as well.
UnblockQuery_Cascading(B, r) ==
  Committed(B, TxDelete(B, TxDelete(B, NoTx, DependentWhere(Val(r.eventId), r.bedId)),
                        UnblockWhere(Val(r.eventId), r.bedId)))

\* DELETE ... AND status IN ('blocked', 'women_only', 'men_only'), autocommit
UnblockQuery(B, r) ==
  Committed(B, TxDelete(B, NoTx, UnblockWhere(Val(r.eventId), r.bedId)))

\* Faulty variant of ClaimQuery: a claim of a bed without slot books the bed.
ClaimQuery_BooksFree(B, r) ==
  LET w == ClaimWhere(Val(r.eventId), r.bedId)
  IN  IF SelectBed(B, NoTx, Val(r.eventId), r.bedId) = EmptyBag
      THEN Committed(B, TxInsert(NoTx, BookedRow(Val(r.eventId), r.bedId, r.body)))
      ELSE Committed(B, TxUpdate(B, NoTx, w,
                                 BagOfAll(LAMBDA x : ClaimSet(x, r.body), Where(B, w))))

\* UPDATE ... WHERE ... AND status IN ('women_only', 'men_only'), autocommit
ClaimQuery(B, r) ==
  LET w == ClaimWhere(Val(r.eventId), r.bedId)
  IN  Committed(B, TxUpdate(B, NoTx, w, BagOfAll(LAMBDA x : ClaimSet(x, r.body), Where(B, w))))

\* ------------------------------------------------------------------ requests
\* The fields of a request are written in the order TLC keeps them in.
ReserveReq(e, b, body, restriction, roomBeds) ==
  [body |-> body, roomRestriction |-> restriction, roomBeds |-> roomBeds,
   op |-> "Reserve", bedId |-> b, eventId |-> e]
ReleaseReq(e, b) == [op |-> "Release", bedId |-> b, eventId |-> e]
UnblockReq(e, b) == [op |-> "Unblock", bedId |-> b, eventId |-> e]
ClaimReq(e, b, body) == [body |-> body, op |-> "Claim", bedId |-> b, eventId |-> e]

\* Faulty variant of Guard: a request without event is answered like one
\* without name.
Guard_NoEventAsBadRequest(r) ==
  IF r.eventId = {} THEN 400
  ELSE IF r.op \in {"Reserve", "Claim", "Append"} /\ NameMissing(r.body.name) THEN 400
  ELSE 0

\* The guards before the first storage call: 404, 400, or 0 to go on.
Guard(r) ==
  IF r.eventId = {} THEN 404
  ELSE IF r.op \in {"Reserve", "Claim", "Append"} /\ NameMissing(r.body.name) THEN 400
  ELSE 0

\* ------------------------------------------------------------------ calls, one at a time
\* Faulty variant of Call: a Claim that updates no row is answered 404.
Call_ClaimNeedsRow(p, r, failing) ==
  LET h == Run(bookings, r, Started)
      ok == Guard(r) = 0 /\ ~failing
      idle == ok /\ r.op = "Claim" /\ ClaimQuery(bookings, r) = bookings
  IN  /\ pc[p] = "idle"
      /\ req' = [req EXCEPT ![p] = r]
      /\ pre' = [pre EXCEPT ![p] = bookings]
      /\ pc' = [pc EXCEPT ![p] = "done"]
      /\ bookings' =
           IF ~ok THEN bookings
           ELSE IF r.op = "Unblock" THEN UnblockQuery(bookings, r)
           ELSE IF r.op = "Claim" THEN ClaimQuery(bookings, r)
           ELSE IF h.pc = "commit" THEN Committed(bookings, h.tx)
           ELSE bookings
      /\ err' = [err EXCEPT ![p] =
           IF Guard(r) # 0 THEN "none"
           ELSE IF failing THEN "storage"
           ELSE IF r.op \in {"Reserve", "Release"} THEN h.err ELSE "none"]
      /\ res' = [res EXCEPT ![p] =
           IF Guard(r) # 0 THEN Guard(r)
           ELSE IF failing THEN 500
           ELSE IF idle THEN 404
           ELSE IF r.op \in {"Reserve", "Release"} /\ h.pc = "rollback" THEN 500
           ELSE 200]
      /\ client' = [client EXCEPT ![p] =
           IF Guard(r) = 0 /\ r.op \in {"Reserve", "Release"}
           THEN Closed(IF ~failing /\ h.pc = "commit" THEN "commit" ELSE "rollback")
           ELSE NoClient]
      /\ sent' = [sent EXCEPT ![p] = 1]
      /\ UNCHANGED <<idx, tx, met, ops, waitlist, nextId, out>>
      /\ UNCHANGED others

\* A whole call of caller p: request r arrives and is served to its response.
\* failing: a storage call of this request throws.
Call(p, r, failing) ==
  LET h == Run(bookings, r, Started)
      ok == Guard(r) = 0 /\ ~failing
  IN  /\ pc[p] = "idle"
      /\ req' = [req EXCEPT ![p] = r]
      /\ pre' = [pre EXCEPT ![p] = bookings]
      /\ pc' = [pc EXCEPT ![p] = "done"]
      /\ bookings' =
           IF ~ok THEN bookings
           ELSE IF r.op = "Unblock" THEN UnblockQuery(bookings, r)
           ELSE IF r.op = "Claim" THEN ClaimQuery(bookings, r)
           ELSE IF h.pc = "commit" THEN Committed(bookings, h.tx)
           ELSE bookings
      /\ err' = [err EXCEPT ![p] =
           IF Guard(r) # 0 THEN "none"
           ELSE IF failing THEN "storage"
           ELSE IF r.op \in {"Reserve", "Release"} THEN h.err ELSE "none"]
      /\ res' = [res EXCEPT ![p] =
           IF Guard(r) # 0 THEN Guard(r)
           ELSE IF failing THEN 500
           ELSE IF r.op \in {"Reserve", "Release"} /\ h.pc = "rollback" THEN 500
           ELSE 200]
      /\ client' = [client EXCEPT ![p] =
           IF Guard(r) = 0 /\ r.op \in {"Reserve", "Release"}
           THEN Closed(IF ~failing /\ h.pc = "commit" THEN "commit" ELSE "rollback")
           ELSE NoClient]
      /\ sent' = [sent EXCEPT ![p] = 1]
      /\ UNCHANGED <<idx, tx, met, ops, waitlist, nextId, out>>
      /\ UNCHANGED others

Reserve(p, e, b, body, args, failing) ==
  Call(p, ReserveReq(e, b, body, args.roomRestriction, args.roomBeds), failing)

Release(p, e, b, failing) == Call(p, ReleaseReq(e, b), failing)

Unblock(p, e, b, failing) == Call(p, UnblockReq(e, b), failing)

Claim(p, e, b, body, failing) == Call(p, ClaimReq(e, b, body), failing)

\* The handler has returned; its variables are gone.
Return(p) ==
  /\ pc[p] = "done"
  /\ pc' = [pc EXCEPT ![p] = "idle"]
  /\ req' = [req EXCEPT ![p] = NoReq]
  /\ pre' = [pre EXCEPT ![p] = EmptyBag]
  /\ err' = [err EXCEPT ![p] = "none"]
  /\ res' = [res EXCEPT ![p] = 0]
  /\ idx' = [idx EXCEPT ![p] = 0]
  /\ met' = [met EXCEPT ![p] = {}]
  /\ out' = [out EXCEPT ![p] = {}]
  /\ client' = [client EXCEPT ![p] = NoClient]
  /\ sent' = [sent EXCEPT ![p] = 0]
  /\ UNCHANGED <<bookings, tx, ops, waitlist, nextId>>
  /\ UNCHANGED others

NoEvent == {}
ThisEvent == {1}

\* The server's own state after startup.
InitServer ==
  /\ bookings = EmptyBag
  /\ pc = [p \in Clients |-> "idle"]
  /\ req = [p \in Clients |-> NoReq]
  /\ idx = [p \in Clients |-> 0]
  /\ tx = [p \in Clients |-> NoTx]
  /\ err = [p \in Clients |-> "none"]
  /\ res = [p \in Clients |-> 0]
  /\ pre = [p \in Clients |-> EmptyBag]
  /\ met = [p \in Clients |-> {}]
  /\ ops = 0
  /\ waitlist = <<>>
  /\ nextId = 1
  /\ out = [p \in Clients |-> {}]
  /\ client = [p \in Clients |-> NoClient]
  /\ sent = [p \in Clients |-> 0]
  /\ events = Seeded
  /\ act = [p \in Clients |-> NoActivation]
  /\ mig = NoRun
  /\ bggCache = <<>>
  /\ now = 0
  /\ fetching = [p \in Clients |-> NoFetch]

Init ==
  /\ InitServer
  /\ db = Migrated

\* One caller, one call at a time.
Next ==
  \/ \E b \in Beds, body \in ValidBodies, args \in RoomArgs, failing \in BOOLEAN :
       Reserve(1, ThisEvent, b, body, args, failing)
  \/ \E b \in Beds, body \in Bodies \ ValidBodies, args \in {a \in RoomArgs : a.roomBeds = Room} :
       Reserve(1, ThisEvent, b, body, args, FALSE)
  \/ \E b \in Beds, args \in {a \in RoomArgs : a.roomBeds = Room} :
       Reserve(1, NoEvent, b, CHOOSE body \in ValidBodies : TRUE, args, FALSE)
  \/ \E e \in {NoEvent, ThisEvent}, b \in Beds, failing \in BOOLEAN : Release(1, e, b, failing)
  \/ \E e \in {NoEvent, ThisEvent}, b \in Beds, failing \in BOOLEAN : Unblock(1, e, b, failing)
  \/ \E e \in {NoEvent, ThisEvent}, b \in Beds, body \in Bodies, failing \in BOOLEAN :
       Claim(1, e, b, body, failing)
  \/ Return(1)

Spec == Init /\ [][Next]_vars

\* One caller, one call at a time, every Reserve naming the whole room as its
\* sibling list.

NextWholeRoom ==
  \/ \E b \in Beds, body \in ValidBodies, args \in {a \in RoomArgs : a.roomBeds = Room}, failing \in BOOLEAN :
       Reserve(1, ThisEvent, b, body, args, failing)
  \/ \E b \in Beds, failing \in BOOLEAN : Release(1, ThisEvent, b, failing)
  \/ \E b \in Beds, failing \in BOOLEAN : Unblock(1, ThisEvent, b, failing)
  \/ \E b \in Beds, body \in ValidBodies, failing \in BOOLEAN :
       Claim(1, ThisEvent, b, body, failing)
  \/ Return(1)

SpecWholeRoom == Init /\ [][NextWholeRoom]_vars

\* ------------------------------------------------------------------ concurrent callers
\* Each caller's handler advances one awaited storage call at a time.  A
\* statement that must wait for another transaction's lock is not enabled
\* until that transaction has ended; it then reads the rows as they are.
InFlight(p) == pc[p] \notin {"idle", "done"}

HandlerState(p) == [pc |-> pc[p], idx |-> idx[p], tx |-> tx[p], err |-> err[p]]

Advance(p, h) ==
  /\ pc' = [pc EXCEPT ![p] = h.pc]
  /\ idx' = [idx EXCEPT ![p] = h.idx]
  /\ tx' = [tx EXCEPT ![p] = h.tx]
  /\ err' = [err EXCEPT ![p] = h.err]

\* q holds an uncommitted write on the key: a row it created, or a committed
\* row it deleted or replaced.
PendingOn(q, e, b) ==
  \E r \in BagToSet(tx[q].ins) \cup BagToSet(tx[q].del) : HasKey(r, e, b)

\* An INSERT of the key waits for these (unique index on (event_id, bed_id)).
InsertBlockers(p, e, b) == {q \in Clients \ {p} : PendingOn(q, e, b)}

\* An UPDATE or DELETE ... WHERE P waits for these: they hold the lock of a
\* committed row it selects.  Uncommitted rows of others are not seen at all.
WriteBlockers(p, w) ==
  {q \in Clients \ {p} : \E r \in BagToSet(tx[q].del) : Matches(r, w)}

\* The transactions the storage call p is suspended at waits for.
Blockers(p) ==
  LET r == req[p]
  IN  CASE pc[p] = "upsert" -> InsertBlockers(p, Val(r.eventId), r.bedId)
        [] pc[p] = "insert" -> InsertBlockers(p, Val(r.eventId), Items(r)[idx[p]])
        [] pc[p] = "delDeps" ->
             WriteBlockers(p, DependentWhere(Val(r.eventId), r.bedId))
        [] pc[p] = "delBed" ->
             WriteBlockers(p, BedWhere(Val(r.eventId), r.bedId))
        [] pc[p] = "query" /\ r.op = "Unblock" ->
             WriteBlockers(p, UnblockWhere(Val(r.eventId), r.bedId))
        [] pc[p] = "query" /\ r.op = "Claim" ->
             WriteBlockers(p, ClaimWhere(Val(r.eventId), r.bedId))
        [] OTHER -> {}

RECURSIVE WaitChain(_, _)
WaitChain(S, n) ==
  IF n = 0 THEN S ELSE WaitChain(S \cup UNION {Blockers(q) : q \in S}, n - 1)

\* p waits, directly or through others, for a transaction that waits for p.
Deadlocked(p) == p \in WaitChain(Blockers(p), NumClients)

\* A request arrives at caller p and runs up to its first storage call.
Receive(p, r) ==
  /\ pc[p] = "idle"
  /\ ops < MaxOps
  /\ ops' = ops + 1
  /\ req' = [req EXCEPT ![p] = r]
  /\ pre' = [pre EXCEPT ![p] = bookings]
  /\ res' = [res EXCEPT ![p] = Guard(r)]
  /\ pc' = [pc EXCEPT ![p] =
       IF Guard(r) # 0 THEN "done"
       ELSE IF r.op \in {"Reserve", "Release"} THEN "begin" ELSE "query"]
  /\ met' = [q \in Clients |->
       IF Guard(r) # 0 THEN met[q]
       ELSE IF q = p THEN {x \in Clients \ {p} : InFlight(x)}
       ELSE IF InFlight(q) THEN met[q] \cup {p} ELSE met[q]]
  /\ client' = [client EXCEPT ![p].held = Guard(r) = 0 /\ r.op \in {"Reserve", "Release"}]
  /\ sent' = [sent EXCEPT ![p] = IF Guard(r) # 0 THEN 1 ELSE 0]
  /\ UNCHANGED <<bookings, idx, tx, err, waitlist, nextId, out>>
  /\ UNCHANGED others

\* The storage call of a transaction at pc[p] returns.
Statement(p, at) ==
  /\ pc[p] = at
  /\ Blockers(p) = {}
  /\ Advance(p, Step(bookings, req[p], HandlerState(p)))
  /\ UNCHANGED <<bookings, req, res, pre, met, ops, waitlist, nextId, out, client, sent>>
  /\ UNCHANGED others

TxBegin(p) == Statement(p, "begin")
ReserveUpsert(p) == Statement(p, "upsert")
CascadeSelect(p) == Statement(p, "select")
CascadeInsert(p) == Statement(p, "insert")
ReleaseDeleteDependents(p) == Statement(p, "delDeps")
ReleaseDeleteBed(p) == Statement(p, "delBed")

\* client.query('COMMIT'); res.json({ success: true, ... }); client.release()
Commit(p) ==
  /\ pc[p] = "commit"
  /\ bookings' = Committed(bookings, tx[p])
  /\ tx' = [tx EXCEPT ![p] = NoTx]
  /\ pc' = [pc EXCEPT ![p] = "done"]
  /\ res' = [res EXCEPT ![p] = 200]
  /\ client' = [client EXCEPT ![p] = Closed("commit")]
  /\ sent' = [sent EXCEPT ![p] = @ + 1]
  /\ UNCHANGED <<req, idx, err, pre, met, ops, waitlist, nextId, out>>
  /\ UNCHANGED others

\* Faulty variant of Rollback: the writes made so far stay in the table, as
\* they would without a transaction around them.
Rollback_KeepsWrites(p) ==
  /\ pc[p] = "rollback"
  /\ bookings' = View(bookings, tx[p])
  /\ tx' = [tx EXCEPT ![p] = NoTx]
  /\ pc' = [pc EXCEPT ![p] = "done"]
  /\ res' = [res EXCEPT ![p] = 500]
  /\ client' = [client EXCEPT ![p] = Closed("rollback")]
  /\ sent' = [sent EXCEPT ![p] = @ + 1]
  /\ UNCHANGED <<req, idx, err, pre, met, ops, waitlist, nextId, out>>
  /\ UNCHANGED others

\* catch: client.query('ROLLBACK'); res.status(500); client.release()
Rollback(p) ==
  /\ pc[p] = "rollback"
  /\ tx' = [tx EXCEPT ![p] = NoTx]
  /\ pc' = [pc EXCEPT ![p] = "done"]
  /\ res' = [res EXCEPT ![p] = 500]
  /\ client' = [client EXCEPT ![p] = Closed("rollback")]
  /\ sent' = [sent EXCEPT ![p] = @ + 1]
  /\ UNCHANGED <<bookings, req, idx, err, pre, met, ops, waitlist, nextId, out>>
  /\ UNCHANGED others

\* The single statement of Unblock or Claim, and the response.
Query(p) ==
  /\ pc[p] = "query"
  /\ Blockers(p) = {}
  /\ bookings' = IF req[p].op = "Unblock" THEN UnblockQuery(bookings, req[p])
                 ELSE ClaimQuery(bookings, req[p])
  /\ pc' = [pc EXCEPT ![p] = "done"]
  /\ res' = [res EXCEPT ![p] = 200]
  /\ sent' = [sent EXCEPT ![p] = @ + 1]
  /\ UNCHANGED <<req, idx, tx, err, pre, met, ops, waitlist, nextId, out, client>>
  /\ UNCHANGED others

\* Faulty variant of StorageError: the failure ends the call with the writes
\* made so far left in the table.
StorageError_KeepsWrites(p) ==
  /\ pc[p] \in {"begin", "upsert", "select", "insert", "delDeps", "delBed", "commit"}
  /\ bookings' = View(bookings, tx[p])
  /\ tx' = [tx EXCEPT ![p] = NoTx]
  /\ pc' = [pc EXCEPT ![p] = "done"]
  /\ err' = [err EXCEPT ![p] = "storage"]
  /\ res' = [res EXCEPT ![p] = 500]
  /\ client' = [client EXCEPT ![p] = Closed("rollback")]
  /\ sent' = [sent EXCEPT ![p] = @ + 1]
  /\ UNCHANGED <<req, idx, pre, met, ops, waitlist, nextId, out>>
  /\ UNCHANGED others

\* A storage call of a transaction throws: control passes to the catch block.
StorageError(p) ==
  /\ pc[p] \in {"begin", "upsert", "select", "insert", "delDeps", "delBed", "commit"}
  /\ pc' = [pc EXCEPT ![p] = "rollback"]
  /\ err' = [err EXCEPT ![p] = "storage"]
  /\ UNCHANGED <<bookings, req, idx, tx, res, pre, met, ops, waitlist, nextId, out, client, sent>>
  /\ UNCHANGED others

\* The statement of Unblock or Claim throws: catch answers 500.
QueryError(p) ==
  /\ pc[p] = "query"
  /\ err' = [err EXCEPT ![p] = "storage"]
  /\ pc' = [pc EXCEPT ![p] = "done"]
  /\ res' = [res EXCEPT ![p] = 500]
  /\ sent' = [sent EXCEPT ![p] = @ + 1]
  /\ UNCHANGED <<bookings, req, idx, tx, pre, met, ops, waitlist, nextId, out, client>>
  /\ UNCHANGED others

\* The storage detects a cycle of waiting transactions and fails p's statement.
DeadlockAbort(p) ==
  /\ pc[p] \in {"upsert", "insert", "delDeps", "delBed"}
  /\ Deadlocked(p)
  /\ pc' = [pc EXCEPT ![p] = "rollback"]
  /\ err' = [err EXCEPT ![p] = "deadlock"]
  /\ UNCHANGED <<bookings, req, idx, tx, res, pre, met, ops, waitlist, nextId, out, client, sent>>
  /\ UNCHANGED others

PairRequests ==
  {ReserveReq(ThisEvent, b, body, a.roomRestriction, a.roomBeds) :
     b \in PairBeds, body \in ValidBodies, a \in PairArgs}
  \cup {ReleaseReq(ThisEvent, b) : b \in PairBeds}
  \cup {UnblockReq(ThisEvent, b) : b \in PairBeds}
  \cup {ClaimReq(ThisEvent, b, body) : b \in PairBeds, body \in ValidBodies}

NextConc ==
  \E p \in Clients :
    \/ \E r \in PairRequests : Receive(p, r)
    \/ TxBegin(p)
    \/ ReserveUpsert(p)
    \/ CascadeSelect(p)
    \/ CascadeInsert(p)
    \/ ReleaseDeleteDependents(p)
    \/ ReleaseDeleteBed(p)
    \/ Commit(p)
    \/ Rollback(p)
    \/ Query(p)
    \/ StorageError(p)
    \/ QueryError(p)
    \/ DeadlockAbort(p)
    \/ Return(p)

SpecConc == Init /\ [][NextConc]_vars

\* The requests of concurrent callers over the three beds of one room: every
\* cascade names the whole room.
RoomRequests ==
  {ReserveReq(ThisEvent, b, body, {"women"}, Room) : b \in Beds, body \in ClaimBodies}
  \cup {ReleaseReq(ThisEvent, b) : b \in Beds}
  \cup {UnblockReq(ThisEvent, b) : b \in Beds}
  \cup {ClaimReq(ThisEvent, b, body) : b \in Beds, body \in ClaimBodies}

NextRoom ==
  \E p \in Clients :
    \/ \E r \in RoomRequests : Receive(p, r)
    \/ TxBegin(p)
    \/ ReserveUpsert(p)
    \/ CascadeSelect(p)
    \/ CascadeInsert(p)
    \/ ReleaseDeleteDependents(p)
    \/ ReleaseDeleteBed(p)
    \/ Commit(p)
    \/ Rollback(p)
    \/ Query(p)
    \/ StorageError(p)
    \/ QueryError(p)
    \/ DeadlockAbort(p)
    \/ Return(p)

SpecRoom == Init /\ [][NextRoom]_vars

\* catch: client.query('ROLLBACK') throws itself, as on a lost connection. The
\* storage drops the transaction; res.status(500) is never reached; finally
\* releases the connection. The rejected handler is answered with 500 by a
\* router that forwards rejections and is left without a response by one that
\* does not.
RollbackError(p) ==
  /\ pc[p] = "rollback"
  /\ tx' = [tx EXCEPT ![p] = NoTx]
  /\ pc' = [pc EXCEPT ![p] = "done"]
  /\ \E forwarded \in BOOLEAN :
       /\ res' = [res EXCEPT ![p] = IF forwarded THEN 500 ELSE 0]
       /\ sent' = [sent EXCEPT ![p] = IF forwarded THEN @ + 1 ELSE @]
  /\ client' = [client EXCEPT ![p] = [held |-> FALSE, released |-> 1, ended |-> <<>>]]
  /\ UNCHANGED <<bookings, req, idx, err, pre, met, ops, waitlist, nextId, out>>
  /\ UNCHANGED others

\* The requests that take a connection from the pool: Reserve with every
\* sibling list of the room, and Release.
PooledRequests ==
  {ReserveReq(ThisEvent, b, body, a.roomRestriction, a.roomBeds) :
     b \in Beds, body \in ClaimBodies, a \in RoomArgs}
  \cup {ReleaseReq(ThisEvent, b) : b \in Beds}

\* One caller, one storage call at a time, each of which may throw.
NextHandler ==
  \/ \E r \in PooledRequests : Receive(1, r)
  \/ TxBegin(1)
  \/ ReserveUpsert(1)
  \/ CascadeSelect(1)
  \/ CascadeInsert(1)
  \/ ReleaseDeleteDependents(1)
  \/ ReleaseDeleteBed(1)
  \/ Commit(1)
  \/ Rollback(1)
  \/ StorageError(1)
  \/ RollbackError(1)
  \/ Return(1)

SpecHandler == Init /\ [][NextHandler]_vars

\* ------------------------------------------------------------------ waitlist and two events
OtherEvent == {2}
Resolved == {NoEvent, ThisEvent, OtherEvent}

\* Request bodies of the waitlist Append: name and comment.
WaitBodies ==
  { [name |-> {Dana},    comment |-> {<<" ", "late">>}],
    [name |-> {<<" ">>}, comment |-> {<<" ">>}],
    [name |-> {},        comment |-> {}] }

EventBodies == {body \in Bodies : body.name # {Alice}}

\* comment?.trim() || null
CommentOrNull(opt) == IF opt = {} \/ Trim(Val(opt)) = <<>> THEN {} ELSE {Trim(Val(opt))}

\* Faulty variant of WaitlistRows: ORDER BY created_at DESC.
WaitlistRows_NewestFirst(W, e) ==
  LET rows == SelectSeq(W, LAMBDA x : x.event_id = e)
  IN  [i \in 1..Len(rows) |-> rows[Len(rows) + 1 - i]]

\* SELECT * FROM waitlist WHERE event_id = $1 ORDER BY created_at ASC
WaitlistRows(W, e) == SelectSeq(W, LAMBDA x : x.event_id = e)

\* Faulty variant of AppendEntry: the id does not come from the sequence.
AppendEntry_FirstId(W, id, e, body) ==
  Append(W, [id |-> 1, event_id |-> e, name |-> Trim(Val(body.name)),
             comment |-> CommentOrNull(body.comment)])

\* INSERT INTO waitlist (event_id, name, comment, created_at) VALUES (...)
AppendEntry(W, id, e, body) ==
  Append(W, [id |-> id, event_id |-> e, name |-> Trim(Val(body.name)),
             comment |-> CommentOrNull(body.comment)])

\* RETURNING *: the row the INSERT has written.
Returning(W) == W[Len(W)]

\* Faulty variant of RemoveEntry: DELETE FROM waitlist WHERE id = $1
RemoveEntry_AnyEvent(W, id, e) == SelectSeq(W, LAMBDA x : x.id # id)

\* DELETE FROM waitlist WHERE id = $1 AND event_id = $2
RemoveEntry(W, id, e) == SelectSeq(W, LAMBDA x : ~(x.id = id /\ x.event_id = e))

\* ------------------------------------------------------------------ GET /api/bookings
\* The mapping List(e) answers: one entry per bed id of the event's rows.
ListBookings(B, e) ==
  LET rows == {r \in BagToSet(B) : r.event_id = e}
  IN  [b \in {r.bed_id : r \in rows} |->
         LET row == CHOOSE r \in rows : r.bed_id = b
         IN  [name |-> row.name,
              status |-> IF row.status = Null THEN "booked" ELSE row.status,
              blockedBy |-> row.blocked_by,
              transport |-> row.transport,
              needsPickup |-> row.needs_pickup,
              seatsAvailable |-> row.seats_available]]

ListReq(e) == [op |-> "List", eventId |-> e]
WaitlistListReq(e) == [op |-> "WaitlistList", eventId |-> e]
AppendReq(e, body) == [body |-> body, op |-> "Append", eventId |-> e]
RemoveReq(e, id) == [op |-> "Remove", eventId |-> e, id |-> id]

\* Request r of caller p is answered with the status of its guards, 200 when
\* it passes them.
Respond(p, r) ==
  /\ pc[p] = "idle"
  /\ req' = [req EXCEPT ![p] = r]
  /\ pre' = [pre EXCEPT ![p] = bookings]
  /\ pc' = [pc EXCEPT ![p] = "done"]
  /\ res' = [res EXCEPT ![p] = IF Guard(r) # 0 THEN Guard(r) ELSE 200]
  /\ sent' = [sent EXCEPT ![p] = 1]
  /\ UNCHANGED <<idx, tx, err, met, ops, client>>
  /\ UNCHANGED others

\* app.get('/api/bookings')
List(p, e) ==
  /\ Respond(p, ListReq(e))
  /\ out' = [out EXCEPT ![p] = IF Guard(ListReq(e)) = 0
                                 THEN {ListBookings(bookings, Val(e))} ELSE {}]
  /\ UNCHANGED <<bookings, waitlist, nextId>>

\* app.get('/api/waitlist')
WaitlistList(p, e) ==
  /\ Respond(p, WaitlistListReq(e))
  /\ out' = [out EXCEPT ![p] = IF Guard(WaitlistListReq(e)) = 0
                                 THEN {WaitlistRows(waitlist, Val(e))} ELSE {}]
  /\ UNCHANGED <<bookings, waitlist, nextId>>

\* app.post('/api/waitlist')
WaitlistAppend(p, e, body) ==
  LET r == AppendReq(e, body)
  IN  /\ Respond(p, r)
      /\ Guard(r) = 0 => nextId <= MaxEntries
      /\ waitlist' = IF Guard(r) = 0 THEN AppendEntry(waitlist, nextId, Val(e), body)
                      ELSE waitlist
      /\ nextId' = IF Guard(r) = 0 THEN nextId + 1 ELSE nextId
      /\ out' = [out EXCEPT ![p] = IF Guard(r) = 0
                                     THEN {[success |-> TRUE, entry |-> Returning(waitlist')]}
                                     ELSE {}]
      /\ UNCHANGED bookings

\* app.delete('/api/waitlist/:id')
WaitlistRemove(p, e, id) ==
  LET r == RemoveReq(e, id)
  IN  /\ Respond(p, r)
      /\ waitlist' = IF Guard(r) = 0 THEN RemoveEntry(waitlist, id, Val(e)) ELSE waitlist
      /\ out' = [out EXCEPT ![p] = IF Guard(r) = 0 THEN {[success |-> TRUE, id |-> id]} ELSE {}]
      /\ UNCHANGED <<bookings, nextId>>

\* One caller, one call at a time, over two events and the waitlist.
NextEvents ==
  \/ \E e \in Resolved, b \in PairBeds, body \in EventBodies, args \in PairArgs :
       Reserve(1, e, b, body, args, FALSE)
  \/ \E e \in Resolved, b \in PairBeds : Release(1, e, b, FALSE)
  \/ \E e \in Resolved, b \in PairBeds : Unblock(1, e, b, FALSE)
  \/ \E e \in Resolved, b \in PairBeds, body \in EventBodies : Claim(1, e, b, body, FALSE)
  \/ \E e \in Resolved : List(1, e)
  \/ \E e \in Resolved : WaitlistList(1, e)
  \/ \E e \in Resolved, body \in WaitBodies : WaitlistAppend(1, e, body)
  \/ \E e \in Resolved, id \in 1..(MaxEntries + 1) : WaitlistRemove(1, e, id)
  \/ Return(1)

SpecEvents == Init /\ [][NextEvents]_vars

\* ------------------------------------------------------------------ event activation
\* The row the first UPDATE of p's activation comes to next.
NextRow(p) == act[p].scan[Cardinality(act[p].locked) + 1]

\* The transactions holding the row lock p's UPDATE waits for.
EventBlockers(p) ==
  IF act[p].pc = "clear"
  THEN {q \in Clients \ {p} : NextRow(p) \in act[q].locked}
  ELSE {}

RECURSIVE ActChain(_, _)
ActChain(S, n) ==
  IF n = 0 THEN S ELSE ActChain(S \cup UNION {EventBlockers(q) : q \in S}, n - 1)

\* Faulty variant of ActivateCommitted: the UPDATE that clears is_active is lost.
ActivateCommitted_NoClear(t, a) == [e \in Events |-> e \in a.on \/ t[e]]

\* The table after p's transaction commits: the rows it wrote carry its values.
ActivateCommitted(t, a) == [e \in Events |-> IF e \in a.locked THEN e \in a.on ELSE t[e]]

\* app.post('/api/admin/events/:id/activate'): pool.connect()
Activate(p, id, scan) ==
  /\ act[p].pc = "idle"
  /\ act' = [q \in Clients |->
       IF q = p
       THEN [NoActivation EXCEPT !.pc = "begin", !.id = id, !.scan = scan,
                                 !.alone = \A x \in Clients \ {p} : act[x].pc \in {"idle", "done"}]
       ELSE IF act[q].pc \notin {"idle", "done"} THEN [act[q] EXCEPT !.alone = FALSE] ELSE act[q]]
  /\ UNCHANGED <<events, booking, migration, catalog>>

\* client.query('BEGIN')
ActivateBegin(p) ==
  /\ act[p].pc = "begin"
  /\ act' = [act EXCEPT ![p].pc = "clear"]
  /\ UNCHANGED <<events, booking, migration, catalog>>

\* UPDATE events SET is_active = false, one row at a time: the row is locked
\* until the transaction ends.
ActivateClear(p) ==
  /\ act[p].pc = "clear"
  /\ EventBlockers(p) = {}
  /\ LET locked == act[p].locked \cup {NextRow(p)}
     IN  act' = [act EXCEPT ![p].locked = locked,
                            ![p].pc = IF locked = Events THEN "set" ELSE "clear"]
  /\ UNCHANGED <<events, booking, migration, catalog>>

\* UPDATE events SET is_active = true WHERE id = $1
ActivateSet(p) ==
  /\ act[p].pc = "set"
  /\ act' = [act EXCEPT ![p].on = {act[p].id} \cap Events, ![p].pc = "commit"]
  /\ UNCHANGED <<events, booking, migration, catalog>>

\* client.query('COMMIT'); res.json({ success: true }); client.release()
ActivateCommit(p) ==
  /\ act[p].pc = "commit"
  /\ events' = ActivateCommitted(events, act[p])
  /\ act' = [act EXCEPT ![p].pc = "done", ![p].res = 200, ![p].locked = {}, ![p].on = {}]
  /\ UNCHANGED <<booking, migration, catalog>>

\* A storage call of the activation throws: control passes to the catch block.
ActivateError(p) ==
  /\ act[p].pc \in {"begin", "clear", "set", "commit"}
  /\ act' = [act EXCEPT ![p].pc = "rollback"]
  /\ UNCHANGED <<events, booking, migration, catalog>>

\* The storage detects a cycle of waiting transactions and fails p's UPDATE.
ActivateDeadlock(p) ==
  /\ act[p].pc = "clear"
  /\ p \in ActChain(EventBlockers(p), NumClients)
  /\ act' = [act EXCEPT ![p].pc = "rollback"]
  /\ UNCHANGED <<events, booking, migration, catalog>>

\* catch: client.query('ROLLBACK'); res.status(500); client.release()
ActivateRollback(p) ==
  /\ act[p].pc = "rollback"
  /\ act' = [act EXCEPT ![p].pc = "done", ![p].res = 500, ![p].locked = {}, ![p].on = {}]
  /\ UNCHANGED <<events, booking, migration, catalog>>

\* The handler has returned.
ActivateReturn(p) ==
  /\ act[p].pc = "done"
  /\ act' = [act EXCEPT ![p] = NoActivation]
  /\ UNCHANGED <<events, booking, migration, catalog>>

NextActivate ==
  \E p \in Clients :
    \/ \E id \in Events \cup {NoSuchEvent}, scan \in Scans : Activate(p, id, scan)
    \/ ActivateBegin(p)
    \/ ActivateClear(p)
    \/ ActivateSet(p)
    \/ ActivateCommit(p)
    \/ ActivateError(p)
    \/ ActivateDeadlock(p)
    \/ ActivateRollback(p)
    \/ ActivateReturn(p)

SpecActivate == Init /\ [][NextActivate]_vars

\* ------------------------------------------------------------------ migration script
\* UPDATE t SET event_id = $1 WHERE event_id IS NULL
Link(t, eventId) == [i \in DOMAIN t |-> IF t[i] = Unlinked THEN eventId ELSE t[i]]

\* SELECT id FROM events WHERE slug = $1
ExistingEvent(t) == {e.id : e \in {x \in t.events : x.slug = Slug}}

\* The script is started on a database it has not seen.
InitMigrate ==
  /\ InitServer
  /\ db \in Databases

\* node migrate-to-events.js: pool.connect()
Migrate ==
  /\ mig.pc \in {"idle", "done", "failed"}
  /\ mig.runs < MaxRuns
  /\ mig' = [mig EXCEPT !.pc = "begin", !.eventId = 0, !.idx = 0, !.tx = Tables(db),
                        !.before = Tables(db), !.runs = @ + 1]
  /\ UNCHANGED <<db, booking, admin, catalog>>

\* client.query('BEGIN')
MigrateBegin ==
  /\ mig.pc = "begin"
  /\ mig' = [mig EXCEPT !.pc = "selectEvent"]
  /\ UNCHANGED <<db, booking, admin, catalog>>

\* 1. SELECT id FROM events WHERE slug = $1
MigrateSelectEvent ==
  /\ mig.pc = "selectEvent"
  /\ mig' = IF ExistingEvent(mig.tx) # {}
            THEN [mig EXCEPT !.pc = "countRooms",
                             !.eventId = CHOOSE id \in ExistingEvent(mig.tx) : TRUE]
            ELSE [mig EXCEPT !.pc = "insertEvent"]
  /\ UNCHANGED <<db, booking, admin, catalog>>

\* INSERT INTO events (..., is_active) VALUES (..., true) RETURNING id: the id
\* comes from the sequence, which no rollback sets back.
MigrateInsertEvent ==
  /\ mig.pc = "insertEvent"
  /\ mig' = [mig EXCEPT !.pc = "countRooms", !.eventId = db.seq,
                        !.tx.events = @ \cup {EventRow(db.seq, Slug, TRUE)}]
  /\ db' = [db EXCEPT !.seq = @ + 1]
  /\ UNCHANGED <<booking, admin, catalog>>

\* 2. SELECT COUNT(*) FROM event_rooms WHERE event_id = $1
MigrateCountRooms ==
  /\ mig.pc = "countRooms"
  /\ mig' = IF Cardinality({r \in mig.tx.rooms : r[1] = mig.eventId}) = 0
            THEN [mig EXCEPT !.pc = "insertRoom", !.idx = 1]
            ELSE [mig EXCEPT !.pc = "linkBookings"]
  /\ UNCHANGED <<db, booking, admin, catalog>>

\* for (const room of ROOMS) INSERT INTO event_rooms ...
MigrateInsertRoom ==
  /\ mig.pc = "insertRoom"
  /\ mig' = [mig EXCEPT !.tx.rooms = @ \cup {<<mig.eventId, mig.idx>>},
                        !.idx = @ + 1,
                        !.pc = IF mig.idx = NumRooms THEN "linkBookings" ELSE "insertRoom"]
  /\ UNCHANGED <<db, booking, admin, catalog>>

\* 3. UPDATE bookings SET event_id = $1 WHERE event_id IS NULL
MigrateLinkBookings ==
  /\ mig.pc = "linkBookings"
  /\ mig' = [mig EXCEPT !.tx.bookings = Link(@, mig.eventId), !.pc = "linkGames"]
  /\ UNCHANGED <<db, booking, admin, catalog>>

\* 4. UPDATE games SET event_id = $1 WHERE event_id IS NULL
MigrateLinkGames ==
  /\ mig.pc = "linkGames"
  /\ mig' = [mig EXCEPT !.tx.games = Link(@, mig.eventId), !.pc = "linkWaitlist"]
  /\ UNCHANGED <<db, booking, admin, catalog>>

\* 5. UPDATE waitlist SET event_id = $1 WHERE event_id IS NULL
MigrateLinkWaitlist ==
  /\ mig.pc = "linkWaitlist"
  /\ mig' = [mig EXCEPT !.tx.waitlist = Link(@, mig.eventId), !.pc = "commit"]
  /\ UNCHANGED <<db, booking, admin, catalog>>

\* client.query('COMMIT')
MigrateCommit ==
  /\ mig.pc = "commit"
  /\ db' = [events |-> mig.tx.events, rooms |-> mig.tx.rooms, bookings |-> mig.tx.bookings,
            games |-> mig.tx.games, waitlist |-> mig.tx.waitlist, seq |-> db.seq]
  /\ mig' = [mig EXCEPT !.pc = "stats", !.migrated = TRUE]
  /\ UNCHANGED <<booking, admin, catalog>>

\* The summary: SELECT (SELECT COUNT(*) FROM bookings ...) ...; the run ends.
MigrateStats ==
  /\ mig.pc = "stats"
  /\ mig' = [mig EXCEPT !.pc = "done"]
  /\ UNCHANGED <<db, booking, admin, catalog>>

\* A storage call inside the try block throws: control passes to the catch block.
MigrateError ==
  /\ mig.pc \in {"begin", "selectEvent", "insertEvent", "countRooms", "insertRoom",
                 "linkBookings", "linkGames", "linkWaitlist", "commit", "stats"}
  /\ mig' = [mig EXCEPT !.pc = "rollback"]
  /\ UNCHANGED <<db, booking, admin, catalog>>

\* catch: client.query('ROLLBACK'); throw err; the process exits with 1. What
\* the open transaction wrote is dropped; what was committed stays.
MigrateRollback ==
  /\ mig.pc = "rollback"
  /\ mig' = [mig EXCEPT !.pc = "failed", !.tx = Tables(db)]
  /\ UNCHANGED <<db, booking, admin, catalog>>

NextMigrate ==
  \/ Migrate
  \/ MigrateBegin
  \/ MigrateSelectEvent
  \/ MigrateInsertEvent
  \/ MigrateCountRooms
  \/ MigrateInsertRoom
  \/ MigrateLinkBookings
  \/ MigrateLinkGames
  \/ MigrateLinkWaitlist
  \/ MigrateCommit
  \/ MigrateStats
  \/ MigrateError
  \/ MigrateRollback

SpecMigrate == InitMigrate /\ [][NextMigrate]_vars

\* ------------------------------------------------------------------ catalog cache
\* bggCache.get(url)
CacheGet(cache, url) == {cache[i] : i \in {j \in DOMAIN cache : cache[j].url = url}}

\* bggCache.set(url, { data, timestamp }): a key the Map holds keeps its place.
CacheSet(cache, url, data, timestamp) ==
  LET entry == [url |-> url, data |-> data, timestamp |-> timestamp]
  IN  IF CacheGet(cache, url) # {}
      THEN [i \in DOMAIN cache |-> IF cache[i].url = url THEN entry ELSE cache[i]]
      ELSE Append(cache, entry)

\* Faulty variant of Cleanup: nothing is ever deleted.
Cleanup_Never(cache) == cache

\* if (bggCache.size > 500) bggCache.delete(bggCache.keys().next().value)
Cleanup(cache) == IF Len(cache) > CacheLimit THEN Tail(cache) ELSE cache

\* getCachedOrFetch(url) up to its first await: a fresh entry is returned,
\* anything else is fetched.
GetCachedOrFetch(p, url) ==
  /\ fetching[p].pc = "idle"
  /\ LET cached == CacheGet(bggCache, url)
         hit == \E c \in cached : now - c.timestamp < BGG_CACHE_TTL
     IN  fetching' = [fetching EXCEPT ![p] =
           IF hit THEN [pc |-> "done", url |-> url,
                        data |-> (CHOOSE c \in cached : TRUE).data]
           ELSE [pc |-> "fetch", url |-> url, data |-> "none"]]
  /\ UNCHANGED <<bggCache, now, booking, admin, migration>>

\* await fetch(url, { headers }) returns an OK response.
FetchOk(p) ==
  /\ fetching[p].pc = "fetch"
  /\ fetching' = [fetching EXCEPT ![p].pc = "text"]
  /\ UNCHANGED <<bggCache, now, booking, admin, migration>>

\* if (!response.ok) throw new Error(...)
FetchNotOk(p) ==
  /\ fetching[p].pc = "fetch"
  /\ fetching' = [fetching EXCEPT ![p].pc = "failed"]
  /\ UNCHANGED <<bggCache, now, booking, admin, migration>>

\* fetch or response.text() rejects.
FetchRejects(p) ==
  /\ fetching[p].pc \in {"fetch", "text"}
  /\ fetching' = [fetching EXCEPT ![p].pc = "failed"]
  /\ UNCHANGED <<bggCache, now, booking, admin, migration>>

\* await response.text() returns: the entry is stored, the cache is cleaned up,
\* the text is returned.
ResponseText(p, data) ==
  /\ fetching[p].pc = "text"
  /\ bggCache' = Cleanup(CacheSet(bggCache, fetching[p].url, data, now))
  /\ fetching' = [fetching EXCEPT ![p].pc = "done", ![p].data = data]
  /\ UNCHANGED <<now, booking, admin, migration>>

\* The caller has its answer or its error.
FetchReturn(p) ==
  /\ fetching[p].pc \in {"done", "failed"}
  /\ fetching' = [fetching EXCEPT ![p] = NoFetch]
  /\ UNCHANGED <<bggCache, now, booking, admin, migration>>

\* Time passes.
Tick ==
  /\ now < MaxTime
  /\ now' = now + 1
  /\ UNCHANGED <<bggCache, fetching, booking, admin, migration>>

NextCache ==
  \/ \E p \in Clients :
       \/ \E url \in Urls : GetCachedOrFetch(p, url)
       \/ FetchOk(p)
       \/ FetchNotOk(p)
       \/ FetchRejects(p)
       \/ \E data \in Texts : ResponseText(p, data)
       \/ FetchReturn(p)
  \/ Tick

SpecCache == Init /\ [][NextCache]_vars

\* ------------------------------------------------------------------ claims
\* The rows of bed b in event e, committed.
Slot(B, e, b) == SelectBed(B, NoTx, e, b)
Free(B, e, b) == Slot(B, e, b) = EmptyBag
StatusOf(B, e, b) == IF Free(B, e, b) THEN "free" ELSE ListBookings(B, e)[b].status

\* Caller p's call of operation op has been answered with success.
Succeeded(p, op) == pc[p] = "done" /\ req[p].op = op /\ res[p] = 200

EventOf(p) == Val(req[p].eventId)
Siblings(p) == {Items(req[p])[i] : i \in 1..Len(Items(req[p]))} \ {req[p].bedId}
Cascades(p, restriction) ==
  /\ Succeeded(p, "Reserve")
  /\ req[p].roomRestriction = {restriction}
  /\ req[p].roomBeds # {} /\ Val(req[p].roomBeds).isArray

\* C1: after a Reserve with a non-blank name and no restriction has completed,
\* List(e) shows the bed booked, with the trimmed name as occupant and a null
\* blocking relation, whatever the bed held before.
C1_ReserveBooks ==
  \A p \in Clients :
    (Succeeded(p, "Reserve") /\ req[p].roomRestriction \in {{}, {"none"}}) =>
      LET list == ListBookings(bookings, EventOf(p))
          b == req[p].bedId
      IN  /\ b \in DOMAIN list
          /\ list[b].status = "booked"
          /\ list[b].name = Trim(Val(req[p].body.name))
          /\ list[b].blockedBy = Null

\* A Reserve without restriction, its name padded with whitespace, has
\* completed on a bed that was women_only.
C1_Witness ==
  \E p \in Clients :
    /\ Succeeded(p, "Reserve") /\ req[p].roomRestriction = {}
    /\ req[p].body.name = {Alice}
    /\ StatusOf(pre[p], EventOf(p), req[p].bedId) = "women_only"
    /\ StatusOf(bookings, EventOf(p), req[p].bedId) = "booked"

\* C2: after a Reserve with restriction 'blocked' and sibling set S, every bed
\* of S \ {b} that had no slot is blocked with blocking relation b, and every
\* bed of S \ {b} that had a slot has the very same slot.
C2_BlockedCascade ==
  \A p \in Clients :
    Cascades(p, "blocked") =>
      \A s \in Siblings(p) :
        IF Free(pre[p], EventOf(p), s)
        THEN /\ StatusOf(bookings, EventOf(p), s) = "blocked"
             /\ ListBookings(bookings, EventOf(p))[s].blockedBy = req[p].bedId
        ELSE Slot(bookings, EventOf(p), s) = Slot(pre[p], EventOf(p), s)

\* A blocked cascade has met one sibling that was free and one that held a slot.
C2_Witness ==
  \E p \in Clients :
    /\ Cascades(p, "blocked")
    /\ \E s \in Siblings(p) :
         Free(pre[p], EventOf(p), s) /\ StatusOf(bookings, EventOf(p), s) = "blocked"
    /\ \E s \in Siblings(p) : ~Free(pre[p], EventOf(p), s)

RestrictionStatus(restriction) ==
  IF restriction = "women" THEN "women_only" ELSE "men_only"

\* C3: after a Reserve with restriction 'women' (resp. 'men'), every sibling
\* that was free is women_only (resp. men_only) with blocking relation the
\* anchor, and no sibling that held a slot is overwritten.
C3_GenderCascade ==
  \A p \in Clients : \A kind \in {"women", "men"} :
    Cascades(p, kind) =>
      \A s \in Siblings(p) :
        IF Free(pre[p], EventOf(p), s)
        THEN /\ StatusOf(bookings, EventOf(p), s) = RestrictionStatus(kind)
             /\ ListBookings(bookings, EventOf(p))[s].blockedBy = req[p].bedId
        ELSE Slot(bookings, EventOf(p), s) = Slot(pre[p], EventOf(p), s)

\* A men cascade has restricted a free sibling and met an occupied one.
C3_Witness ==
  \E p \in Clients :
    /\ Cascades(p, "men")
    /\ \E s \in Siblings(p) :
         Free(pre[p], EventOf(p), s) /\ StatusOf(bookings, EventOf(p), s) = "men_only"
    /\ \E s \in Siblings(p) : StatusOf(pre[p], EventOf(p), s) = "women_only"

DependsOn(r, e, b) == r.event_id = e /\ r.blocked_by = b

\* C4: after Release(e, b) the ledger of e holds neither b nor any slot whose
\* blocking relation was b, and every other slot is as it was.
C4_ReleaseCascades ==
  \A p \in Clients :
    Succeeded(p, "Release") =>
      /\ \A r \in BagToSet(bookings) :
           ~HasKey(r, EventOf(p), req[p].bedId) /\ ~DependsOn(r, EventOf(p), req[p].bedId)
      /\ \A r \in BagToSet(pre[p]) :
           (HasKey(r, EventOf(p), req[p].bedId) \/ DependsOn(r, EventOf(p), req[p].bedId))
             \/ CopiesIn(r, bookings) = CopiesIn(r, pre[p])
      /\ \A r \in BagToSet(bookings) : BagIn(r, pre[p])

\* A Release has removed an anchor and a dependent and kept a third slot.
C4_Witness ==
  \E p \in Clients :
    /\ Succeeded(p, "Release")
    /\ ~Free(pre[p], EventOf(p), req[p].bedId)
    /\ \E r \in BagToSet(pre[p]) : DependsOn(r, EventOf(p), req[p].bedId)
    /\ BagCardinality(bookings) = 1

\* C5: a Claim with a non-blank name makes the slot booked under the new name
\* if and only if the slot was women_only or men_only; on a free, booked or
\* blocked bed the ledger is unchanged.
C5_ClaimOnlyRestricted ==
  \A p \in Clients :
    Succeeded(p, "Claim") =>
      LET e == EventOf(p)
          b == req[p].bedId
      IN  IF StatusOf(pre[p], e, b) \in Claimable
          THEN /\ StatusOf(bookings, e, b) = "booked"
               /\ ListBookings(bookings, e)[b].name = Trim(Val(req[p].body.name))
               /\ bookings (-) Slot(bookings, e, b) = pre[p] (-) Slot(pre[p], e, b)
          ELSE bookings = pre[p]

\* A Claim has turned a women_only slot into a booking.
C5_Witness ==
  \E p \in Clients :
    /\ Succeeded(p, "Claim")
    /\ StatusOf(pre[p], EventOf(p), req[p].bedId) = "women_only"
    /\ StatusOf(bookings, EventOf(p), req[p].bedId) = "booked"

\* C6: Unblock removes the slot if and only if it was blocked, women_only or
\* men_only; a booked slot and a free bed stay as they were.
C6_UnblockOnlyRestricted ==
  \A p \in Clients :
    Succeeded(p, "Unblock") =>
      LET e == EventOf(p)
          b == req[p].bedId
      IN  IF StatusOf(pre[p], e, b) \in Restricted
          THEN bookings = pre[p] (-) Slot(pre[p], e, b)
          ELSE bookings = pre[p]

\* An Unblock has removed a blocked slot while other slots stayed.
C6_Witness ==
  \E p \in Clients :
    /\ Succeeded(p, "Unblock")
    /\ StatusOf(pre[p], EventOf(p), req[p].bedId) = "blocked"
    /\ Free(bookings, EventOf(p), req[p].bedId)
    /\ bookings # EmptyBag

\* Caller p's handler takes the step.
Moved(p) == pc'[p] # pc[p] \/ idx'[p] # idx[p]

PrimaryRow(p) == BookedRow(EventOf(p), req[p].bedId, req[p].body)

\* C7: a Reserve with a restriction is all-or-nothing.  Every step of its
\* handler leaves the ledger as it is, except the COMMIT that answers with
\* success, which adds the primary booked slot together with every cascade
\* write of the call; a call that fails with nobody else under way leaves the
\* ledger as it was on arrival.
C7_AllOrNothing ==
  [][\A p \in Clients :
       (InFlight(p) /\ Moved(p) /\ req[p].op = "Reserve" /\ CascadeGuard(req[p])) =>
         \/ /\ bookings' = bookings
            /\ pc'[p] = "done" => res'[p] = 500
            /\ (pc'[p] = "done" /\ met[p] = {}) => bookings' = pre[p]
         \/ /\ pc[p] = "commit" /\ pc'[p] = "done" /\ res'[p] = 200
            /\ bookings' = (bookings (-) tx[p].del) (+) tx[p].ins
            /\ BagIn(PrimaryRow(p), bookings')
            /\ \A r \in BagToSet(tx[p].ins) : BagIn(r, bookings')
            /\ \A r \in BagToSet(tx[p].del) : HasKey(r, EventOf(p), req[p].bedId)
    ]_vars

\* A Reserve with a restriction had written its primary slot and a cascade
\* slot when its COMMIT failed: the ledger is as it was on arrival.
C7_Witness ==
  \E p \in Clients :
    /\ pc[p] = "done" /\ req[p].op = "Reserve" /\ CascadeGuard(req[p])
    /\ res[p] = 500 /\ err[p] = "storage" /\ met[p] = {}
    /\ idx[p] > Len(Items(req[p]))
    /\ \E s \in Siblings(p) : Free(pre[p], EventOf(p), s)
    /\ bookings = pre[p]

\* C8: in every reachable state, concurrent calls included, the ledger holds
\* at most one slot for each (event, bed) pair.
C8_OneSlotPerBed ==
  \A e \in Events, b \in Beds : BagCardinality(Slot(bookings, e, b)) <= 1

\* A cascade INSERT has been refused for a bed that another caller's slot holds.
C8_Witness ==
  \E p \in Clients :
    /\ pc[p] = "rollback" /\ err[p] = "unique_violation"
    /\ BagCardinality(Slot(bookings, EventOf(p), Items(req[p])[idx[p]])) = 1

\* C9: a cascading Reserve whose sibling is taken between its existence check
\* and its write still completes with success and its own primary slot booked,
\* and the sibling keeps the other caller's slot.
C9_LosesGracefully ==
  \A p \in Clients :
    (pc[p] = "done" /\ req[p].op = "Reserve" /\ err[p] = "unique_violation") =>
      /\ res[p] = 200
      /\ BagIn(PrimaryRow(p), bookings)
      /\ ~Free(bookings, EventOf(p), Items(req[p])[idx[p]])

\* C10: the upsert of a Reserve never fails on a slot another caller holds,
\* and the COMMIT of every Reserve, also of one that waited for a concurrent
\* Reserve of the same bed, leaves exactly one slot for the bed: booked, with
\* a null blocking relation and the name and logistics of the committing call.
C10_LastWriterWins ==
  [][\A p \in Clients :
       (InFlight(p) /\ Moved(p) /\ req[p].op = "Reserve") =>
         /\ pc[p] = "upsert" => (pc'[p] # "rollback" \/ err'[p] = "storage")
         /\ (pc[p] = "commit" /\ pc'[p] = "done") =>
              /\ res'[p] = 200
              /\ Slot(bookings', EventOf(p), req[p].bedId) = SetToBag({PrimaryRow(p)})
              /\ PrimaryRow(p).status = "booked" /\ PrimaryRow(p).blocked_by = Null
    ]_vars

\* Two Reserve calls of the same bed with different bodies ran concurrently
\* and both were answered with success; the slot is that of one of them.
C10_Witness ==
  \E p, q \in Clients :
    /\ p # q /\ q \in met[p] /\ p \in met[q]
    /\ Succeeded(p, "Reserve") /\ Succeeded(q, "Reserve")
    /\ req[p].bedId = req[q].bedId /\ req[p].body # req[q].body
    /\ Slot(bookings, EventOf(p), req[p].bedId) = SetToBag({PrimaryRow(p)})

\* A slot that was claimed: booked, and still tied to the anchor of its room.
IsClaimed(r) == r.status = "booked" /\ r.blocked_by # Null

\* C11: a Claim leaves the blocking relation of the slot it takes as it was; a
\* Release of anchor b removes every slot whose blocking relation is b, the
\* claimed (booked) ones included; and a claimed slot stays as it is through
\* every call except a Reserve of its bed and a Release of its bed or anchor.
C11_ClaimedFollowsAnchor ==
  \A p \in Clients :
    LET e == EventOf(p)
        b == req[p].bedId
    IN  /\ (Succeeded(p, "Claim") /\ StatusOf(pre[p], e, b) \in Claimable) =>
             ListBookings(bookings, e)[b].blockedBy = ListBookings(pre[p], e)[b].blockedBy
        /\ Succeeded(p, "Release") =>
             \A r \in BagToSet(pre[p]) : DependsOn(r, e, b) => Free(bookings, e, r.bed_id)
        /\ (pc[p] = "done" /\ req[p].eventId # {}) =>
             \A r \in BagToSet(pre[p]) :
               IsClaimed(r) =>
                 \/ BagIn(r, bookings)
                 \/ Succeeded(p, "Reserve") /\ HasKey(r, e, b)
                 \/ Succeeded(p, "Release") /\ (HasKey(r, e, b) \/ DependsOn(r, e, b))

\* The anchor of a women's room is released after one dependent was claimed:
\* the claimed slot is gone, and so is a dependent that was still women_only.
C11_Witness ==
  \E p \in Clients :
    /\ Succeeded(p, "Release")
    /\ \E r \in BagToSet(pre[p]) :
         /\ IsClaimed(r) /\ DependsOn(r, EventOf(p), req[p].bedId)
         /\ Free(bookings, EventOf(p), r.bed_id)
    /\ \E r \in BagToSet(pre[p]) :
         /\ r.status \in Claimable /\ DependsOn(r, EventOf(p), req[p].bedId)
         /\ Free(bookings, EventOf(p), r.bed_id)

\* The committed rows after the Release request r has run on the rows B.
Released(B, r) == Committed(B, Run(B, r, Started).tx)

\* Caller p's call got past the guards and no storage call of it failed.
Unfailing(p, op) == pc[p] = "done" /\ req[p].op = op /\ Guard(req[p]) = 0 /\ err[p] = "none"

\* C12: a Release of a bed without slot and without dependents, and an Unblock
\* of a free or booked bed, answer with success and leave the ledger as it
\* was; a second Release (or Unblock) right after the first changes nothing.
C12_ReleaseUnblockIdempotent ==
  \A p \in Clients :
    /\ Unfailing(p, "Release") =>
         /\ res[p] = 200
         /\ (Free(pre[p], EventOf(p), req[p].bedId)
               /\ \A r \in BagToSet(pre[p]) : ~DependsOn(r, EventOf(p), req[p].bedId))
              => bookings = pre[p]
         /\ Released(bookings, req[p]) = bookings
    /\ Unfailing(p, "Unblock") =>
         /\ res[p] = 200
         /\ StatusOf(pre[p], EventOf(p), req[p].bedId) \in {"free", "booked"} => bookings = pre[p]
         /\ UnblockQuery(bookings, req[p]) = bookings

\* A Release of a free bed without dependents was answered with success while
\* the ledger held slots, one of them blocked by another bed.
C12_Witness ==
  \E p \in Clients :
    /\ Succeeded(p, "Release")
    /\ Free(pre[p], EventOf(p), req[p].bedId)
    /\ \E r \in BagToSet(pre[p]) : r.blocked_by # Null
    /\ bookings = pre[p]

\* C13: when a storage call of a Reserve or a Release fails, at whichever
\* step, the caller is answered 500 and no step of the call has changed the
\* ledger: it is as it was before the call if nobody else was under way.
C13_FailureRollsBack ==
  [][\A p \in Clients :
       (InFlight(p) /\ Moved(p) /\ req[p].op \in {"Reserve", "Release"}) =>
         /\ pc'[p] # "done" => bookings' = bookings
         /\ (pc'[p] = "done" /\ err'[p] = "storage") =>
              /\ res'[p] = 500
              /\ bookings' = bookings
              /\ met[p] = {} => bookings' = pre[p]
    ]_vars

\* A Reserve with a cascade failed at the existence check or the INSERT of a
\* free sibling, after its primary upsert: the answer is 500 and the ledger is
\* as it was on arrival.
C13_Witness ==
  \E p \in Clients :
    /\ pc[p] = "done" /\ req[p].op = "Reserve" /\ CascadeGuard(req[p])
    /\ res[p] = 500 /\ err[p] = "storage" /\ met[p] = {}
    /\ idx[p] \in 1..Len(Items(req[p]))
    /\ Free(pre[p], EventOf(p), Items(req[p])[idx[p]])
    /\ bookings = pre[p]

\* Caller p's handler serves a whole call in this step.
Served(p) == pc[p] = "idle" /\ pc'[p] = "done"

Untouched == bookings' = bookings /\ waitlist' = waitlist /\ nextId' = nextId

\* C14: a call of List, Reserve, Release, Unblock, Claim or of the waitlist's
\* List, Append or Remove for which no event is resolved is answered 404 and
\* leaves the ledger and the waitlist as they were.
C14_NoEventNotFound ==
  [][\A p \in Clients :
       (Served(p) /\ req'[p].eventId = {}) => (res'[p] = 404 /\ Untouched)
    ]_vars

\* A Reserve with a name and a cascade, sent without a resolved event while
\* ledger and waitlist held rows, was answered 404.
C14_Witness ==
  \E p \in Clients :
    /\ pc[p] = "done" /\ req[p].op = "Reserve" /\ req[p].eventId = {}
    /\ req[p].body.name = {Dana} /\ CascadeGuard(req[p])
    /\ res[p] = 404
    /\ bookings # EmptyBag /\ waitlist # <<>>

\* The name is absent, empty, or made of whitespace only.
Blank(name) == name = {} \/ \A i \in 1..Len(Val(name)) : Val(name)[i] = " "

\* C15: a Reserve, a Claim or a waitlist Append whose name is absent, empty or
\* whitespace only is answered 400 and writes nothing: ledger and waitlist are
\* as they were, no primary slot and no cascade slot appears.
C15_BlankNameRejected ==
  [][\A p \in Clients :
       (Served(p) /\ req'[p].op \in {"Reserve", "Claim", "Append"}
          /\ req'[p].eventId # {} /\ Blank(req'[p].body.name))
         => (res'[p] = 400 /\ Untouched)
    ]_vars

\* A Reserve with a whitespace-only name and a cascade over a free sibling was
\* answered 400; the bed and the sibling are still free.
C15_Witness ==
  \E p \in Clients :
    /\ pc[p] = "done" /\ req[p].op = "Reserve" /\ req[p].eventId # {}
    /\ req[p].body.name = {<<" ">>} /\ CascadeGuard(req[p])
    /\ res[p] = 400
    /\ Free(bookings, EventOf(p), req[p].bedId)
    /\ \E s \in Siblings(p) : Free(bookings, EventOf(p), s)

\* The rows of event e in the ledger B.
LedgerOf(B, e) == [r \in {x \in BagToSet(B) : x.event_id = e} |-> B[r]]

\* C16: a call made under event e leaves the slots and the waitlist entries
\* of every other event as they were, also when the other event holds the
\* same bed id or a dependent of the same anchor bed id.
C16_EventScoped ==
  [][\A p \in Clients :
       (Served(p) /\ req'[p].eventId # {}) =>
         \A other \in Events \ req'[p].eventId :
           /\ LedgerOf(bookings', other) = LedgerOf(bookings, other)
           /\ WaitlistRows(waitlist', other) = WaitlistRows(waitlist, other)
    ]_vars

\* A Release in one event has removed an anchor and its dependent while the
\* other event keeps its anchor of the same bed id with its dependent.
C16_Witness ==
  \E p \in Clients : \E other \in Events :
    /\ Succeeded(p, "Release") /\ other # EventOf(p)
    /\ \E r \in BagToSet(pre[p]) : DependsOn(r, EventOf(p), req[p].bedId)
    /\ LedgerOf(bookings, EventOf(p)) = EmptyBag
    /\ ~Free(bookings, other, req[p].bedId)
    /\ \E r \in BagToSet(bookings) : DependsOn(r, other, req[p].bedId)

\* The beds named by the sibling list of caller p's request, if it is a list.
RoomOf(p) ==
  IF req[p].roomBeds # {} /\ Val(req[p].roomBeds).isArray
  THEN {Val(req[p].roomBeds).items[i] : i \in 1..Len(Val(req[p].roomBeds).items)}
  ELSE {}

\* C17: a Reserve writes only its primary bed and beds of its sibling list
\* that were free: every bed outside the list and other than the primary bed,
\* and every listed sibling that held a slot, has the slot it had before.
C17_ReserveFrame ==
  \A p \in Clients :
    (pc[p] = "done" /\ req[p].op = "Reserve" /\ req[p].eventId # {}) =>
      \A bed \in Beds \ {req[p].bedId} :
        (bed \notin RoomOf(p) \/ ~Free(pre[p], EventOf(p), bed)) =>
          Slot(bookings, EventOf(p), bed) = Slot(pre[p], EventOf(p), bed)

\* A Reserve with a cascade has restricted a sibling while an occupied bed
\* outside its sibling list is as it was.
C17_Witness ==
  \E p \in Clients :
    /\ Cascades(p, "men")
    /\ \E s \in RoomOf(p) \ {req[p].bedId} :
         Free(pre[p], EventOf(p), s) /\ ~Free(bookings, EventOf(p), s)
    /\ \E bed \in Beds \ (RoomOf(p) \cup {req[p].bedId}) :
         ~Free(pre[p], EventOf(p), bed)
           /\ Slot(bookings, EventOf(p), bed) = Slot(pre[p], EventOf(p), bed)

\* C18: an Unblock never cascades: every slot other than that of its bed, the
\* slots whose blocking relation is the bed included, is as it was.
C18_UnblockNoCascade ==
  \A p \in Clients :
    (pc[p] = "done" /\ req[p].op = "Unblock" /\ req[p].eventId # {}) =>
      /\ bookings (-) Slot(bookings, EventOf(p), req[p].bedId)
           = pre[p] (-) Slot(pre[p], EventOf(p), req[p].bedId)
      /\ \A r \in BagToSet(pre[p]) :
           DependsOn(r, EventOf(p), req[p].bedId) => BagIn(r, bookings)

\* An Unblock of a bed that other slots are blocked by was answered with
\* success, and those slots are still there.
C18_Witness ==
  \E p \in Clients :
    /\ Succeeded(p, "Unblock")
    /\ \E r \in BagToSet(pre[p]) :
         DependsOn(r, EventOf(p), req[p].bedId) /\ BagIn(r, bookings)

\* C19: a Reserve of a bed whose slot is blocked, women_only or men_only
\* succeeds and replaces the restriction: the slot is booked by the caller with
\* a null blocking relation, and a Release of the former anchor run on the
\* resulting ledger leaves the slot in place.
C19_ReserveReplacesRestriction ==
  \A p \in Clients :
    (Unfailing(p, "Reserve") /\ StatusOf(pre[p], EventOf(p), req[p].bedId) \in Restricted) =>
      LET e == EventOf(p)
          b == req[p].bedId
          anchor == ListBookings(pre[p], e)[b].blockedBy
      IN  /\ res[p] = 200
          /\ StatusOf(bookings, e, b) = "booked"
          /\ ListBookings(bookings, e)[b].name = Trim(Val(req[p].body.name))
          /\ ListBookings(bookings, e)[b].blockedBy = Null
          /\ anchor # Null =>
               Slot(Released(bookings, ReleaseReq(req[p].eventId, anchor)), e, b)
                 = Slot(bookings, e, b)

\* A Reserve has taken a women_only bed whose anchor still holds its slot.
C19_Witness ==
  \E p \in Clients :
    /\ Succeeded(p, "Reserve")
    /\ StatusOf(pre[p], EventOf(p), req[p].bedId) = "women_only"
    /\ StatusOf(bookings, EventOf(p), req[p].bedId) = "booked"
    /\ ~Free(bookings, EventOf(p), ListBookings(pre[p], EventOf(p))[req[p].bedId].blockedBy)

\* C20: a Claim with a non-blank name and a resolved event is answered with
\* the same success whether it took a restricted slot or, on a free, booked or
\* blocked bed, changed nothing.
C20_ClaimAlwaysSucceeds ==
  \A p \in Clients :
    Unfailing(p, "Claim") =>
      /\ res[p] = 200
      /\ StatusOf(pre[p], EventOf(p), req[p].bedId) \notin Claimable => bookings = pre[p]

\* A Claim of a blocked bed was answered with success and changed nothing.
C20_Witness ==
  \E p \in Clients :
    /\ Succeeded(p, "Claim")
    /\ StatusOf(pre[p], EventOf(p), req[p].bedId) = "blocked"
    /\ bookings = pre[p]

Statuses == {"booked", "blocked", "women_only", "men_only"}

\* C21: in every reachable state every slot's status is one of booked,
\* blocked, women_only, men_only, and List(e) shows a bed exactly when the bed
\* has a slot in e: a bed without a slot is free.
C21_StatusDomain ==
  /\ \A r \in BagToSet(bookings) : r.status \in Statuses
  /\ \A e \in Events :
       LET list == ListBookings(bookings, e)
       IN  /\ \A b \in DOMAIN list : list[b].status \in Statuses
           /\ \A b \in Beds :
                (b \in DOMAIN list) <=> (\E r \in BagToSet(bookings) : HasKey(r, e, b))

\* A Reserve with an unknown restriction has completed while the ledger holds
\* a booked, a blocked and a men_only slot.
C21_Witness ==
  \E p \in Clients :
    /\ Succeeded(p, "Reserve") /\ req[p].roomRestriction = {"vip"}
    /\ {r.status : r \in BagToSet(bookings)} = {"booked", "blocked", "men_only"}

\* C22: the waitlist List of event e answers with exactly the entries of e
\* that were appended and are not removed, oldest first: the ids are issued in
\* ascending order, every entry's id is below the next id to be issued, and
\* the answer holds each entry of e once, in ascending order of id.
C22_ListInAppendOrder ==
  /\ \A i \in DOMAIN waitlist : waitlist[i].id < nextId
  /\ \A p \in Clients :
       Succeeded(p, "WaitlistList") =>
         /\ out[p] # {}
         /\ LET answer == Val(out[p])
                present == {waitlist[i] : i \in {k \in DOMAIN waitlist :
                                                   waitlist[k].event_id = EventOf(p)}}
            IN  /\ {answer[i] : i \in DOMAIN answer} = present
                /\ Len(answer) = Cardinality(present)
                /\ \A i, j \in DOMAIN answer : i < j => answer[i].id < answer[j].id

\* The waitlist List of an event has answered with two entries.
C22_Witness ==
  \E p \in Clients :
    /\ Succeeded(p, "WaitlistList")
    /\ Len(Val(out[p])) = 2

\* C23: a waitlist Remove(e, id) is answered with success; it deletes the entry
\* with that id if the entry belongs to e and nothing else, and with an id
\* that no entry has, or that an entry of another event has, it leaves every
\* waitlist as it was.  The ledger is never touched.
C23_RemoveScoped ==
  [][\A p \in Clients :
       (Served(p) /\ req'[p].op = "Remove" /\ req'[p].eventId # {}) =>
         LET e == Val(req'[p].eventId)
             id == req'[p].id
             own == \E i \in DOMAIN waitlist :
                      waitlist[i].id = id /\ waitlist[i].event_id = e
         IN  /\ res'[p] = 200
             /\ bookings' = bookings /\ nextId' = nextId
             /\ waitlist' = IF own THEN SelectSeq(waitlist, LAMBDA x : x.id # id)
                             ELSE waitlist
    ]_vars

\* A Remove under one event, with the id of an entry of the other event, was
\* answered with success and the entry is still there.
C23_Witness ==
  \E p \in Clients :
    /\ Succeeded(p, "Remove")
    /\ \E i \in DOMAIN waitlist :
         waitlist[i].id = req[p].id /\ waitlist[i].event_id # EventOf(p)

\* C24: a waitlist Append with a non-blank name under event e is answered
\* with success and with the entry it has written; the waitlist holds exactly
\* one entry more, of event e, under the trimmed name and with an id that no
\* entry had; every entry that was there is as it was; the ledger is not
\* touched.
C24_AppendAddsOne ==
  [][\A p \in Clients :
       (Served(p) /\ req'[p].op = "Append" /\ req'[p].eventId # {}
          /\ ~Blank(req'[p].body.name)) =>
         /\ res'[p] = 200
         /\ bookings' = bookings
         /\ Len(waitlist') = Len(waitlist) + 1
         /\ \A i \in DOMAIN waitlist : waitlist'[i] = waitlist[i]
         /\ LET entry == waitlist'[Len(waitlist')]
            IN  /\ entry.event_id = Val(req'[p].eventId)
                /\ entry.name = Trim(Val(req'[p].body.name))
                /\ \A i \in DOMAIN waitlist : waitlist[i].id # entry.id
                /\ out'[p] = {[success |-> TRUE, entry |-> entry]}
    ]_vars

\* A second Append has been answered: the waitlist holds the earlier entry and
\* the new one, whose comment was stored without its padding.
C24_Witness ==
  \E p \in Clients :
    /\ Succeeded(p, "Append")
    /\ Len(waitlist) = 2
    /\ out[p] = {[success |-> TRUE, entry |-> waitlist[2]]}
    /\ waitlist[2].comment = {<<"late">>}

\* The committed rows after the transaction of request r has run alone on B.
Serially(B, r) == Committed(B, Run(B, r, Started).tx)

\* C25: a Reserve with cascade on anchor b and a Release(b) that ran at the
\* same time and both succeeded leave the ledger one of the two serial orders
\* would leave, and no slot whose blocking relation is b while b has no slot.
C25_SerialOutcome ==
  \A p, q \in Clients :
    (/\ p # q /\ q \in met[p] /\ p \in met[q] /\ pre[p] = pre[q]
     /\ Succeeded(p, "Release") /\ Succeeded(q, "Reserve") /\ CascadeGuard(req[q])
     /\ EventOf(p) = EventOf(q) /\ req[p].bedId = req[q].bedId) =>
      /\ bookings \in {Serially(Serially(pre[p], req[p]), req[q]),
                       Serially(Serially(pre[p], req[q]), req[p])}
      /\ Free(bookings, EventOf(p), req[p].bedId) =>
           \A r \in BagToSet(bookings) : ~DependsOn(r, EventOf(p), req[p].bedId)

\* C26: in every reachable state no slot's blocking relation names a bed whose
\* own slot is blocked, women_only or men_only: a restricted slot is never the
\* anchor of another slot.
C26_NoRestrictedAnchor ==
  \A r \in BagToSet(bookings) :
    r.blocked_by # Null => StatusOf(bookings, r.event_id, r.blocked_by) \notin Restricted

\* C27: with Reserve, Claim, Release and Unblock called one at a time, every
\* slot with a non-null blocking relation a has a slot for bed a in the same
\* event: the ledger holds no dangling blocking relation.
C27_NoDanglingAnchor ==
  \A r \in BagToSet(bookings) :
    r.blocked_by # Null => ~Free(bookings, r.event_id, r.blocked_by)

\* A Release of one dependent has completed; the ledger still holds a claimed
\* slot and its anchor.
C27_Witness ==
  \E p \in Clients :
    /\ Succeeded(p, "Release")
    /\ \E r \in BagToSet(pre[p]) :
         HasKey(r, EventOf(p), req[p].bedId) /\ r.blocked_by # Null
    /\ \E r \in BagToSet(bookings) : IsClaimed(r)

\* C28: in every reachable state a slot with status booked has a null
\* blocking relation.
C28_BookedHasNoAnchor ==
  \A r \in BagToSet(bookings) : r.status = "booked" => r.blocked_by = Null

\* C29: the cascade is set-once.  A Reserve of an anchor b that has
\* dependents, under any name and any restriction, leaves every dependent of b
\* as it was (status, display name, blocking relation), and every slot it adds
\* beside the primary one is on a bed of its sibling list that was free.
C29_CascadeSetOnce ==
  \A p \in Clients :
    Succeeded(p, "Reserve") =>
      LET e == EventOf(p)
          b == req[p].bedId
          dependents == {r \in BagToSet(pre[p]) : DependsOn(r, e, b)}
      IN  dependents # {} =>
            /\ \A r \in dependents : CopiesIn(r, bookings) = CopiesIn(r, pre[p])
            /\ \A r \in BagToSet(bookings) :
                 BagIn(r, pre[p]) \/ HasKey(r, e, b)
                   \/ (Free(pre[p], e, r.bed_id) /\ r.bed_id \in RoomOf(p))

\* An anchor with a women_only dependent was reserved again with restriction
\* men: the dependent is still women_only and a sibling that was free is
\* men_only.
C29_Witness ==
  \E p \in Clients :
    /\ Cascades(p, "men")
    /\ \E r \in BagToSet(pre[p]) :
         DependsOn(r, EventOf(p), req[p].bedId) /\ r.status = "women_only"
    /\ \E s \in Siblings(p) :
         Free(pre[p], EventOf(p), s) /\ StatusOf(bookings, EventOf(p), s) = "men_only"

\* C30: Reserve is a full overwrite.  After a Reserve on a bed that had a slot
\* the bed has one slot, booked, under the trimmed name of the call, with a
\* null blocking relation; each logistics field holds the value the call
\* supplied, and null, false or 0 where the call supplied none (an empty
\* transport counts as none).  Nothing of the previous slot is left.
C30_FullOverwrite ==
  \A p \in Clients :
    (Succeeded(p, "Reserve") /\ ~Free(pre[p], EventOf(p), req[p].bedId)) =>
      LET slot == Slot(bookings, EventOf(p), req[p].bedId)
          body == req[p].body
      IN  /\ BagCardinality(slot) = 1
          /\ \A r \in BagToSet(slot) :
               /\ r.status = "booked" /\ r.blocked_by = Null
               /\ r.name = Trim(Val(body.name))
               /\ r.transport = IF body.transport \in {{}, {""}} THEN Null
                                ELSE Val(body.transport)
               /\ r.needs_pickup = (body.needsPickup = {TRUE})
               /\ r.seats_available = IF body.seatsAvailable = {} THEN 0
                                      ELSE Val(body.seatsAvailable)

\* A Reserve that supplies no seat count has overwritten a claimed slot that
\* offered two seats and had an anchor: the slot offers none and has no anchor.
C30_Witness ==
  \E p \in Clients :
    /\ Succeeded(p, "Reserve") /\ req[p].body.seatsAvailable = {}
    /\ \E r \in BagToSet(pre[p]) :
         /\ HasKey(r, EventOf(p), req[p].bedId)
         /\ r.seats_available = 2 /\ r.blocked_by # Null
    /\ \A r \in BagToSet(Slot(bookings, EventOf(p), req[p].bedId)) :
         r.seats_available = 0 /\ r.blocked_by = Null

\* C31: the anchor is never restricted by its own cascade.  After a Reserve
\* with a cascade whose sibling list holds the anchor's own bed id, the anchor
\* has one slot, booked, with a null blocking relation; and in every reachable
\* state no slot's blocking relation is its own bed id.
C31_AnchorNotRestricted ==
  /\ \A r \in BagToSet(bookings) : r.blocked_by # r.bed_id
  /\ \A p \in Clients :
       (Succeeded(p, "Reserve") /\ CascadeGuard(req[p]) /\ req[p].bedId \in RoomOf(p)) =>
         LET slot == Slot(bookings, EventOf(p), req[p].bedId)
         IN  /\ BagCardinality(slot) = 1
             /\ \A r \in BagToSet(slot) : r.status = "booked" /\ r.blocked_by = Null

\* A Reserve with restriction women over a list that holds the anchor has
\* restricted both other beds of the list; the anchor was free before.
C31_Witness ==
  \E p \in Clients :
    /\ Cascades(p, "women") /\ req[p].bedId \in RoomOf(p)
    /\ Free(pre[p], EventOf(p), req[p].bedId)
    /\ \A s \in Siblings(p) : StatusOf(bookings, EventOf(p), s) = "women_only"

\* Callers p and q serve a Claim of the same bed, each arrived while the
\* other's call was under way and nobody else's, and the bed was women_only
\* or men_only when they arrived.
ClaimRace(p, q) ==
  /\ p # q /\ met[p] = {q} /\ met[q] = {p} /\ pre[p] = pre[q]
  /\ req[p].op = "Claim" /\ req[q].op = "Claim"
  /\ EventOf(p) = EventOf(q) /\ req[p].bedId = req[q].bedId
  /\ StatusOf(pre[p], EventOf(p), req[p].bedId) \in Claimable

\* C32: of two Claim calls of the same women_only or men_only bed that run at
\* the same time exactly one takes effect.  When the later statement returns,
\* the slot is booked with the name and logistics of the earlier claimant,
\* the later claim changes nothing, and both callers are answered 200.
C32_OneClaimWins ==
  [][\A p, q \in Clients :
       (/\ ClaimRace(p, q) /\ Succeeded(q, "Claim")
        /\ pc[p] = "query" /\ pc'[p] = "done" /\ err'[p] = "none") =>
         /\ res'[p] = 200
         /\ bookings = ClaimQuery(pre[p], req[q])
         /\ bookings' = bookings
    ]_vars

\* Two claims of one women_only bed under different names have both been
\* answered 200; the bed is booked under the name of the first.
C32_Witness ==
  \E p, q \in Clients :
    /\ ClaimRace(p, q) /\ Succeeded(p, "Claim") /\ Succeeded(q, "Claim")
    /\ req[p].body.name # req[q].body.name
    /\ bookings = ClaimQuery(pre[p], req[q])
    /\ StatusOf(bookings, EventOf(p), req[p].bedId) = "booked"

\* The beds that hold a slot of event e in B.
Occupied(B, e) == {r.bed_id : r \in {x \in BagToSet(B) : x.event_id = e}}

\* C33: in every reachable state every blocked, women_only or men_only slot
\* has a non-null blocking relation.  A slot on a bed that was free comes from
\* a Reserve only: it is the primary slot, booked with a null blocking
\* relation, or a restricted slot whose blocking relation is the anchor of
\* that Reserve.  Claim, Unblock and Release leave every free bed free.
C33_SlotOrigins ==
  /\ \A r \in BagToSet(bookings) : r.status \in Restricted => r.blocked_by # Null
  /\ \A p \in Clients :
       pc[p] = "done" =>
         \A r \in BagToSet(bookings) :
           r.bed_id \notin Occupied(pre[p], r.event_id) =>
             /\ req[p].op = "Reserve" /\ r.event_id = EventOf(p)
             /\ IF r.bed_id = req[p].bedId
                THEN r.status = "booked" /\ r.blocked_by = Null
                ELSE r.status \in Restricted /\ r.blocked_by = req[p].bedId

\* A Claim of a free bed was answered 200 beside a restricted slot: the bed
\* is still free.
C33_Witness ==
  \E p \in Clients :
    /\ Succeeded(p, "Claim")
    /\ Free(pre[p], EventOf(p), req[p].bedId)
    /\ Free(bookings, EventOf(p), req[p].bedId)
    /\ \E r \in BagToSet(bookings) : r.status \in Restricted

\* The Reserve request r asks for no cascade: its restriction is absent,
\* 'none' or no known kind, or its sibling list is absent or no list.
NoCascade(r) ==
  \/ r.roomRestriction = {}
  \/ Val(r.roomRestriction) \notin {"blocked", "women", "men"}
  \/ r.roomBeds = {}
  \/ ~Val(r.roomBeds).isArray

\* C34: a Reserve whose restriction is absent, 'none' or another value than
\* blocked, women, men, or whose sibling list is absent or not a list, writes
\* the primary slot only: it is answered 200, the primary bed is booked, and
\* every other slot is as it was and no other slot appears.
C34_PrimaryOnly ==
  \A p \in Clients :
    (Unfailing(p, "Reserve") /\ NoCascade(req[p])) =>
      /\ res[p] = 200
      /\ StatusOf(bookings, EventOf(p), req[p].bedId) = "booked"
      /\ \A b \in Beds \ {req[p].bedId} : \A e \in Events :
           Slot(bookings, e, b) = Slot(pre[p], e, b)

\* A Reserve with an unknown restriction and the whole room as sibling list
\* has booked its bed; the other beds of the room are still free.
C34_Witness ==
  \E p \in Clients :
    /\ Succeeded(p, "Reserve") /\ req[p].roomRestriction = {"vip"}
    /\ RoomOf(p) = Beds
    /\ \A b \in Beds \ {req[p].bedId} : Free(bookings, EventOf(p), b)

\* The beds other than the anchor that the sibling list of p's request names
\* more than once.
Repeated(p) ==
  LET items == Val(req[p].roomBeds).items
  IN  {items[i] : i \in {k \in DOMAIN items :
                           \E j \in DOMAIN items : j # k /\ items[j] = items[k]}}
        \ {req[p].bedId}

\* C35: when the sibling list of a Reserve names a free bed more than once,
\* the Reserve is answered 200 unless the storage fails, and the bed has
\* exactly one slot, restricted by the anchor: the existence check finds the
\* slot the call has written itself and skips the repeated entry.
C35_RepeatedSibling ==
  \A p \in Clients :
    (/\ pc[p] = "done" /\ req[p].op = "Reserve" /\ Guard(req[p]) = 0
     /\ err[p] # "storage" /\ CascadeGuard(req[p]) /\ ~NoCascade(req[p])) =>
      \A s \in Repeated(p) :
        Free(pre[p], EventOf(p), s) =>
          /\ res[p] = 200
          /\ BagCardinality(Slot(bookings, EventOf(p), s)) = 1
          /\ \A r \in BagToSet(Slot(bookings, EventOf(p), s)) :
               r.status \in Restricted /\ r.blocked_by = req[p].bedId

\* A Reserve with restriction men whose sibling list names a free bed twice
\* has completed; the bed is men_only.
C35_Witness ==
  \E p \in Clients :
    /\ Cascades(p, "men")
    /\ \E s \in Repeated(p) :
         Free(pre[p], EventOf(p), s) /\ StatusOf(bookings, EventOf(p), s) = "men_only"

\* C36: when every Reserve names the whole room as its sibling list, no
\* reachable state has a women_only slot and a men_only slot in the room.
C36_NoMixedRoom ==
  \A e \in Events :
    ~(\E r, s \in BagToSet(bookings) :
        /\ r.event_id = e /\ s.event_id = e
        /\ r.status = "women_only" /\ s.status = "men_only")

\* C37: every Reserve and Release call that obtained a storage connection and
\* has finished ended in exactly one of commit or rollback, sent exactly one
\* response and released the connection exactly once, wherever a storage call
\* failed.
C37_OneEnding ==
  \A p \in Clients :
    (pc[p] = "done" /\ req[p].op \in {"Reserve", "Release"} /\ Guard(req[p]) = 0)
      => /\ Len(client[p].ended) = 1
         /\ sent[p] = 1
         /\ client[p].released = 1
         /\ ~client[p].held

\* The active events.
Active == {e \in Events : events[e]}

\* p's activation of an existing event, with no other activation from its
\* arrival on, commits in this step.
CommitsAlone(p) ==
  /\ act[p].pc = "commit" /\ act'[p].pc = "done" /\ act'[p].res = 200
  /\ act[p].alone /\ act[p].id \in Events

\* C38: after any sequence of event activations, concurrent ones and ones of a
\* non-existent id included, at most one event is active; and an activation of
\* an existing id that succeeds with no concurrent activation leaves exactly
\* that event active.
C38_OneActive ==
  /\ [](Cardinality(Active) <= 1)
  /\ [][\A p \in Clients : CommitsAlone(p) => Active' = {act[p].id}]_vars

\* Two activations of different events ran concurrently and both succeeded.
C38_Witness ==
  \E p, q \in Clients :
    /\ \A x \in {p, q} : act[x].pc = "done" /\ act[x].res = 200 /\ ~act[x].alone
    /\ act[p].id \in Events /\ act[q].id \in Events /\ act[p].id # act[q].id

\* A run that commits on a database an earlier run has migrated changes no table.
Idempotent ==
  [][(mig.migrated /\ mig.pc = "commit" /\ mig'.pc = "stats") => Tables(db') = Tables(db)]_vars

\* A run that failed left every table as it found it.
Atomic == mig.pc = "failed" => Tables(db) = mig.before

\* C39: the migration is idempotent and atomic: a second run on a migrated
\* database creates no second event and no additional rooms and leaves every
\* booking, game and waitlist entry linked as after the first run; and a failure
\* at any step rolls back every change of that run.
C39_IdempotentAtomic == Idempotent /\ []Atomic

CachedUrls == {bggCache[i].url : i \in DOMAIN bggCache}

\* p's fetch gets a response that is not OK in this step.
FetchFails(p) == fetching[p].pc = "fetch" /\ fetching'[p].pc = "failed"

\* C40: after every completed getCachedOrFetch call the catalog cache holds at
\* most the limit of entries (500 in the source), and a fetch that fails with
\* a response that is not OK leaves the cache exactly as it was.
C40_CacheBounded ==
  /\ [](Len(bggCache) <= CacheLimit)
  /\ [][\A p \in Clients : FetchFails(p) => bggCache' = bggCache]_vars

\* The cache is full, one caller's fetched entry has been deleted to make room
\* for another's, and a fetch has failed.
C40_Witness ==
  /\ Len(bggCache) = CacheLimit
  /\ \E p, q \in Clients :
       /\ fetching[p].pc = "done" /\ fetching[p].url \notin CachedUrls
       /\ fetching[q].pc = "failed"

====
